---- MODULE Spec2Model ----
(***************************************************************************)
(* Batch orchestration of drewster99/appstore (gold/commands):             *)
(* create_batch_from_json builds a Batch (keyword_batches row) with its    *)
(* BatchItems (batch_keywords rows); process_batch drives the pending      *)
(* items through the external "appstore analyze" tool one at a time.       *)
(* Every database transaction is one atomic step; the processor can be     *)
(* killed between any two steps.                                           *)
(***************************************************************************)
EXTENDS Integers, Sequences, FiniteSets, TLC

\* ---------------------------------------------------------------- bounds
MaxItems == 2      \* most keyword descriptors in a selection file
MaxRuns  == 2      \* most processor invocations in a behaviour
MaxClock == 1      \* last value of the wall clock (seconds)
MaxSearches == 2   \* most rows of the searches table
MaxScoreInput == 101  \* largest integer given to a score function (but 999)
MaxRows == 1       \* most data rows of a sheet whose cells are enumerated
MaxStmts == 3      \* most writes made through transaction scopes
MaxScopes == 2     \* most transaction scopes entered one after the other
MaxReports == 2    \* most rows of the table apple_reports the importer fills
MaxKeywords == 6   \* most keywords in the input of KeywordAnalyzer.process_keywords
MaxCalls == 2      \* most calls of process_keywords on one checkpoint file
MaxMigrations == 3 \* most .sql files in the migrations directory
MaxScript == 2     \* statements of a migration script
MaxMigrateRuns == 3  \* most calls of run_migrations
MaxLaunches == 3   \* most starts of the MCP server launcher
MaxVersions == 2   \* installed versions of appstore-mcp-server
MaxDigest == 2     \* distinct SHA-256 digests of an archive

\* ------------------------------------------------------------- constants
NULL == -1          \* SQL NULL in a numeric or timestamp column
None == "None"      \* SQL NULL / Python None in a text column
BatchId == 1        \* the batch id the processor is invoked with
Procs == {1, 2}     \* process slots: invocations that overlap need two
SeqProcs == {1}     \* invocations that never overlap reuse one slot
ToolTimeout == 60
NoAppsNote == "No apps found in App Store for this keyword"
TimeoutNote == "Timeout after 60 seconds"
StderrNote == "stderr[:200]"
ExcNote == "str(e)"
SearchId == "search_id"

\* table apple_reports: rows by id
apple_reports == <<[data_month |-> "2024-12", is_active |-> FALSE],
                   [data_month |-> "2025-01", is_active |-> TRUE]>>
\* table apple_keywords: rows by id
apple_keywords == <<[report_id |-> 2, country |-> "US", search_term |-> "a"],
                    [report_id |-> 2, country |-> "US", search_term |-> "b"],
                    [report_id |-> 2, country |-> "GB", search_term |-> "a"]>>
\* search terms a selection file can name ("x" has no Keyword row)
Terms == {"a", "b", "x"}
\* the 'month' and 'country' fields a descriptor can have (None: absent)
Months == {"2024-12", "2025-01", None}
Countries == {"US", "GB", None}
\* the entries of a selected_keywords.json file
Descriptors == [month : Months, country : Countries, search_term : Terms]
\* the lists json.load can return from the file
DescLists == UNION {[1..n -> Descriptors] : n \in 0..MaxItems}

Statuses == {"pending", "in_progress", "completed", "failed"}
Terminal == {"completed", "failed"}
ToolOutcomes == {"exit0", "nonzero", "timeout", "raise"}

VARIABLES
  keyword_batches,  \* table keyword_batches: rows by id
  items,       \* table batch_keywords: the rows of the batch, by id (1..n)
  now,         \* CURRENT_TIMESTAMP
  pc,          \* per process: position in process_batch
  keywords,    \* per process: the pending rows loaded at line 149 (ids)
  idx,         \* per process: loop index (1-based)
  succeeded,   \* per process: local succeeded counter
  failed,      \* per process: local failed counter
  rate,        \* per process: rate_limit_seconds argument
  result,      \* per process: outcome of the tool call being recorded
  ret,         \* per process: value returned by process_batch
  toolCalls,   \* history: number of tool invocations per item
  outcome,     \* history: outcome of the last tool call per item
  runs,        \* history: number of invocations started
  kills,       \* history: TRUE once an invocation has been killed
  waits,       \* history, per process: rate-limit waits of the invocation
  searches,    \* table searches (written by the tool): rows by id
  before,      \* per process: before_timestamp of the current item
  cpc,         \* position in create_batch_from_json
  cin,         \* the file json_path names: whether it exists, its entries
  ctx,         \* the uncommitted writes of its transaction
  batch_keywords,  \* its local list of resolved keyword ids
  cend,        \* history: the position at which the last call raised or was killed
  fin,         \* the argument of the function call under study
  fout,        \* its result
  txn,         \* one scope of database.transaction(): its connection and caller
  ar,          \* table apple_reports as the importer fills it: rows by id
  ak,          \* table apple_keywords as the importers fill it: rows by id
  ipc,         \* per process: position in import_report
  ifile,       \* per process: the Excel file given to import_report
  ikw,         \* per process: its local list keywords
  itx,         \* per process: the uncommitted writes of its transaction
  iret,        \* per process: the report id import_report returned
  iprev,       \* history, per process: the reports of the file's key active at the call
  ifail,       \* history: TRUE once an import has raised or was killed
  ukpc,        \* position in the script import_uk_keywords.py
  kz,          \* KeywordAnalyzer.process_keywords: its object, locals and checkpoint file
  mg,          \* run_migrations: the migrations directory, the database, its locals
  dl           \* the MCP server launcher: its cache directories and its position

fnVars == <<fin, fout>>
repVars == <<ar, ak, ipc, ifile, ikw, itx, iret, iprev, ifail, ukpc>>
\* the variables of the programs beside the store
toolVars == <<kz, mg, dl>>
impVars == <<fnVars, txn, repVars, toolVars>>
\* the variables of the batch commands
storeVars == <<keyword_batches, items, now, pc, keywords, idx, succeeded, failed, rate,
               result, ret, toolCalls, outcome, runs, kills, waits, searches, before,
               cpc, cin, ctx, batch_keywords, cend>>
\* what the importers and the function calls leave alone
batchVars == <<storeVars, toolVars>>
extVars == <<waits, searches, before, cpc, cin, ctx, batch_keywords, cend, impVars>>
createVars == <<searches, cpc, cin, ctx, batch_keywords, cend, impVars>>

vars == <<keyword_batches, items, now, pc, keywords, idx, succeeded, failed, rate,
          result, ret, toolCalls, outcome, runs, kills, extVars>>

procVars == <<pc, keywords, idx, succeeded, failed, rate, result, ret>>
histVars == <<toolCalls, outcome, runs, kills>>

\* ---------------------------------------------------------------- helpers
RECURSIVE SelectIds(_, _, _)
\* ids of the rows of the batch with a status in S, in ascending id order,
\* from id i on
SelectIds(its, S, i) ==
  IF i > Len(its) THEN <<>>
  ELSE IF its[i].batch_id = BatchId /\ its[i].status \in S
       THEN <<i>> \o SelectIds(its, S, i + 1)
       ELSE SelectIds(its, S, i + 1)

\* mutant: the pending rows of every batch (no WHERE batch_id = ?)
PendingKeywords_anyBatch(its) ==
  LET S == {i \in 1..Len(its) : its[i].status = "pending"}
  IN [k \in 1..Cardinality(S) |-> CHOOSE i \in S : Cardinality({j \in S : j < i}) = k - 1]

\* mutant: failed rows are queued again (WHERE status IN ('pending','failed'))
PendingKeywords_retryFailed(its) == SelectIds(its, {"pending", "failed"}, 1)

\* mutant: rows left in_progress are queued again
PendingKeywords_requeue(its) == SelectIds(its, {"pending", "in_progress"}, 1)

\* mutant: no filter on status
PendingKeywords_all(its) == SelectIds(its, Statuses, 1)

\* mutant: ORDER BY id DESC
PendingKeywords_desc(its) ==
  LET q == SelectIds(its, {"pending"}, 1)
  IN [k \in 1..Len(q) |-> q[Len(q) + 1 - k]]

\* SELECT * FROM batch_keywords WHERE batch_id = ? AND status = 'pending' ORDER BY id
PendingKeywords(its) == SelectIds(its, {"pending"}, 1)

\* COUNT(CASE WHEN status = s THEN 1 END) ... WHERE batch_id = ?
CountStatus(its, s) ==
  Cardinality({i \in 1..Len(its) : its[i].batch_id = BatchId /\ its[i].status = s})

\* mutant: any failure makes the batch failed
FinalStatus_anyFailure(s, f) == IF f = 0 THEN "completed" ELSE "failed"

\* final_status = 'completed' if failed == 0 else ('failed' if succeeded == 0 else 'completed')
FinalStatus(s, f) ==
  IF f = 0 THEN "completed" ELSE (IF s = 0 THEN "failed" ELSE "completed")

\* UPDATE batch_keywords SET status, [analysis_search_id,] processed_at, error_message
update_batch_keyword_status(its, id, status, search_id, error_message) ==
  IF search_id # None
  THEN [its EXCEPT ![id] = [@ EXCEPT !.status = status, !.analysis_search_id = search_id,
                                     !.processed_at = now,
                                     !.error_message = error_message]]
  ELSE [its EXCEPT ![id] = [@ EXCEPT !.status = status, !.processed_at = now,
                                     !.error_message = error_message]]

\* mutant: COUNT(*) instead of the CASE on status = 'completed'
update_batch_counters_countAll(b, its) ==
  [b EXCEPT !.completed_keywords = Len(its),
            !.failed_keywords = CountStatus(its, "failed")]

\* mutant: failed_keywords is not written
update_batch_counters_noFailed(b, its) ==
  [b EXCEPT !.completed_keywords = CountStatus(its, "completed")]

\* UPDATE keyword_batches SET completed_keywords = ?, failed_keywords = ?
update_batch_counters(b, its) ==
  [b EXCEPT !.completed_keywords = CountStatus(its, "completed"),
            !.failed_keywords = CountStatus(its, "failed")]

\* SELECT * FROM keyword_batches WHERE id = ?
BatchExists == BatchId \in DOMAIN keyword_batches
batch == keyword_batches[BatchId]

Running(p) == pc[p] \notin {"idle", "returned", "raised", "killed"}

\* INSERT INTO batch_keywords (batch_id, keyword_id, search_term, country, genre, status)
NewRow(kid) == [batch_id |-> BatchId, keyword_id |-> kid,
                search_term |-> apple_keywords[kid].search_term,
                country |-> apple_keywords[kid].country,
                status |-> "pending", analysis_search_id |-> None,
                processed_at |-> NULL, error_message |-> None]

\* the row of the i-th resolved descriptor of a selection that names the
\* Keyword rows in turn
NewItem(i) == NewRow(((i - 1) % Len(apple_keywords)) + 1)

NoResult == [outcome |-> None, search_id |-> None]

\* create_batch_from_json not running: no file, no open transaction
NoInput == [exists |-> FALSE, descs |-> <<>>]
NoTx == [batch |-> <<>>, rows |-> <<>>]

\* ------------------------------------------------------------------- Init
\* no function has been called
NoArg == [fn |-> None]

\* the tables keyword_batches and batch_keywords are empty
InitBatch ==
  /\ keyword_batches = <<>>
  /\ items = <<>>
  /\ toolCalls = <<>>
  /\ outcome = <<>>

\* no process is running
InitProcs ==
  /\ now = 0
  /\ pc = [p \in Procs |-> "idle"]
  /\ keywords = [p \in Procs |-> <<>>]
  /\ idx = [p \in Procs |-> 0]
  /\ succeeded = [p \in Procs |-> 0]
  /\ failed = [p \in Procs |-> 0]
  /\ rate = [p \in Procs |-> 0]
  /\ result = [p \in Procs |-> NoResult]
  /\ ret = [p \in Procs |-> <<>>]
  /\ runs = 0
  /\ kills = FALSE
  /\ waits = [p \in Procs |-> 0]
  /\ searches = <<>>
  /\ before = [p \in Procs |-> NULL]
  /\ cpc = "idle"
  /\ cin = NoInput
  /\ ctx = NoTx
  /\ batch_keywords = <<>>
  /\ cend = None

\* no function call is under study
InitFn ==
  /\ fin = NoArg
  /\ fout = NoArg

\* transaction() has not been entered; write 0 was committed earlier
InitTxn ==
  txn = [pc |-> "idle", committed |-> {0}, pending |-> {}, made |-> {}, exc |-> None,
         pre |-> {0}, n |-> 0, scopes |-> 0]

\* a file that cannot be read or whose metadata do not parse
NoFile == [defect |-> "metadata", report_id |-> None, generated_at |-> NULL,
           month_locale_key |-> None, rows |-> <<>>]
\* no open transaction of import_report
NoImportTx == [report |-> <<>>, keywords |-> <<>>]

\* the report tables are empty and no importer is running
InitImport ==
  /\ ar = <<>>
  /\ ak = <<>>
  /\ ipc = [p \in Procs |-> "idle"]
  /\ ifile = [p \in Procs |-> NoFile]
  /\ ikw = [p \in Procs |-> <<>>]
  /\ itx = [p \in Procs |-> NoImportTx]
  /\ iret = [p \in Procs |-> NULL]
  /\ iprev = [p \in Procs |-> {}]
  /\ ifail = FALSE
  /\ ukpc = "idle"

\* process_keywords has not been called and there is no checkpoint file
NoCheckpoint == [exists |-> FALSE]
InitAnalyzer ==
  kz = [pc |-> "idle", keywords |-> <<>>, checkpoint |-> NoCheckpoint, i |-> 0,
        results |-> <<>>, failed |-> <<>>, successful |-> 0, nfailed |-> 0,
        processed_terms |-> {}, analyzed |-> {}, calls |-> 0]

\* the migrations directory is empty, no migration has been applied and
\* run_migrations is not running
InitMigrations ==
  mg = [pc |-> "idle", files |-> {}, schema_migrations |-> <<>>, effects |-> {},
        pending |-> <<>>, k |-> 0, applied_count |-> 0,
        tried |-> <<>>, stopped |-> FALSE, runs |-> 0, added |-> FALSE,
        start_files |-> {}, start_applied |-> {}, new_files |-> FALSE,
        prev_stopped |-> FALSE]

\* the launcher has not been started and no version has a cached binary;
\* a file is the digest of the archive it came from, 0 when it does not exist
InitLauncher ==
  dl = [pc |-> "idle", version |-> 1, binary |-> [v \in 1..MaxVersions |-> 0],
        tar |-> [v \in 1..MaxVersions |-> 0], compared |-> FALSE,
        mismatch |-> FALSE, downloaded |-> FALSE, executed |-> 0, launches |-> 0]

\* the programs beside the store have not run
InitTools == InitAnalyzer /\ InitMigrations /\ InitLauncher

Init ==
  /\ InitBatch
  /\ InitProcs
  /\ InitFn
  /\ InitTxn
  /\ InitImport
  /\ InitTools

\* ---------------------------------------------------------------- scores
\* import_uk_keywords.py: score_rank_in_genre
score_rank_in_genre_uk(rank) ==
  IF 1 <= rank /\ rank <= 10 THEN 3
  ELSE IF 11 <= rank /\ rank <= 25 THEN 2
  ELSE IF 26 <= rank /\ rank <= 50 THEN 1
  ELSE 0

\* import_uk_keywords.py: score_popularity_in_genre
score_popularity_in_genre_uk(popularity) ==
  IF 76 <= popularity /\ popularity <= 100 THEN 3
  ELSE IF 61 <= popularity /\ popularity <= 75 THEN 2
  ELSE IF 50 <= popularity /\ popularity <= 60 THEN 1
  ELSE 0

\* import_uk_keywords.py: score_overall_popularity
score_overall_popularity_uk(popularity) ==
  IF 86 <= popularity /\ popularity <= 100 THEN 5
  ELSE IF 71 <= popularity /\ popularity <= 85 THEN 4
  ELSE IF 61 <= popularity /\ popularity <= 70 THEN 3
  ELSE IF 51 <= popularity /\ popularity <= 60 THEN 2
  ELSE IF 41 <= popularity /\ popularity <= 50 THEN 1
  ELSE 0

\* import_report.py: score_rank_in_genre
score_rank_in_genre(rank) ==
  IF 1 <= rank /\ rank <= 10 THEN 3
  ELSE IF 11 <= rank /\ rank <= 25 THEN 2
  ELSE IF 26 <= rank /\ rank <= 50 THEN 1
  ELSE 0

\* import_report.py: score_popularity_in_genre
score_popularity_in_genre(popularity) ==
  IF 76 <= popularity /\ popularity <= 100 THEN 3
  ELSE IF 61 <= popularity /\ popularity <= 75 THEN 2
  ELSE IF 50 <= popularity /\ popularity <= 60 THEN 1
  ELSE 0

\* mutant: the lowest scoring band starts one above 50
score_overall_popularity_from51(popularity) ==
  IF 86 <= popularity /\ popularity <= 100 THEN 5
  ELSE IF 71 <= popularity /\ popularity <= 85 THEN 4
  ELSE IF 61 <= popularity /\ popularity <= 70 THEN 3
  ELSE IF 51 <= popularity /\ popularity <= 60 THEN 2
  ELSE 0

\* import_report.py: score_overall_popularity
score_overall_popularity(popularity) ==
  IF 86 <= popularity /\ popularity <= 100 THEN 5
  ELSE IF 71 <= popularity /\ popularity <= 85 THEN 4
  ELSE IF 61 <= popularity /\ popularity <= 70 THEN 3
  ELSE IF 50 <= popularity /\ popularity <= 60 THEN 2
  ELSE 0

\* process_keywords.py: score_rank_in_genre
score_rank_in_genre_pk(rank) ==
  IF 1 <= rank /\ rank <= 10 THEN 3
  ELSE IF 11 <= rank /\ rank <= 25 THEN 2
  ELSE IF 26 <= rank /\ rank <= 50 THEN 1
  ELSE 0

\* process_keywords.py: score_popularity_in_genre
score_popularity_in_genre_pk(popularity) ==
  IF 76 <= popularity /\ popularity <= 100 THEN 3
  ELSE IF 61 <= popularity /\ popularity <= 75 THEN 2
  ELSE IF 50 <= popularity /\ popularity <= 60 THEN 1
  ELSE 0

\* process_keywords.py: score_overall_popularity
score_overall_popularity_pk(popularity) ==
  IF 86 <= popularity /\ popularity <= 100 THEN 5
  ELSE IF 71 <= popularity /\ popularity <= 85 THEN 4
  ELSE IF 61 <= popularity /\ popularity <= 70 THEN 3
  ELSE IF 50 <= popularity /\ popularity <= 60 THEN 2
  ELSE 0

\* the integers the score functions are called with: around and between the
\* band edges, below 1, above 100, and the unranked sentinel
ScoreInputs == (-2..MaxScoreInput) \cup {999}

\* a score is asked for one integer
ScoreInit ==
  /\ InitBatch
  /\ InitProcs
  /\ fin \in {[fn |-> "score", x |-> n] : n \in ScoreInputs}
  /\ fout = NoArg
  /\ InitTxn
  /\ InitImport
  /\ InitTools

\* the three score functions of import_report.py and of process_keywords.py
\* are applied to the integer
ScoreCall ==
  /\ fin.fn = "score"
  /\ fout = NoArg
  /\ fout' = [fn |-> "score",
              rank |-> score_rank_in_genre(fin.x),
              genre |-> score_popularity_in_genre(fin.x),
              overall |-> score_overall_popularity(fin.x),
              rank_pk |-> score_rank_in_genre_pk(fin.x),
              genre_pk |-> score_popularity_in_genre_pk(fin.x),
              overall_pk |-> score_overall_popularity_pk(fin.x)]
  /\ UNCHANGED <<batchVars, fin, txn, repVars>>

ScoreSpec == ScoreInit /\ [][ScoreCall]_vars

\* ---------------------------------------------------------------- rows
\* a cell of a numeric column: empty, not a number, or an integer
NoneCell == [kind |-> "none", val |-> 0]
BadCell == [kind |-> "bad", val |-> 0]
IntCell(n) == [kind |-> "int", val |-> n]

\* the data rows (from row 8 on) a sheet can hold; "US" and "GB" stand for
\* "United States" and "United Kingdom", "" for an empty search term
DataRows ==
  [search_term : {"a", ""}, country : {"US", "GB"},
   rank : {NoneCell, BadCell, IntCell(5)},
   pop_genre : {NoneCell, BadCell, IntCell(80)},
   pop_overall : {NoneCell, BadCell, IntCell(50)},
   pop_scale : {NoneCell, IntCell(3)}]

\* `if row[i]`: the cell is truthy (None, "" and 0 are not)
Truthy(c) == c.kind = "bad" \/ (c.kind = "int" /\ c.val # 0)

\* `int(row[i]) if row[i] else default`, for a cell int() accepts
IntOr(c, default) == IF Truthy(c) THEN c.val ELSE default

\* lines 233-240: int() raises ValueError or TypeError on one of the cells
IntRaises(row) ==
  \E c \in {row.rank, row.pop_genre, row.pop_overall, row.pop_scale} : c.kind = "bad"

\* lines 234-260: the entry appended for a row that is kept
keyword_entry(row) ==
  LET rank == IntOr(row.rank, 999)
      pop_genre == IntOr(row.pop_genre, 0)
      pop_overall == IntOr(row.pop_overall, 0)
      pop_scale == IntOr(row.pop_scale, 0)
      rank_score == score_rank_in_genre(rank)
      genre_score == score_popularity_in_genre(pop_genre)
      overall_score == score_overall_popularity(pop_overall)
  IN [country |-> row.country, search_term |-> row.search_term,
      rank_in_genre |-> rank, popularity_genre |-> pop_genre,
      popularity_overall |-> pop_overall, popularity_scale |-> pop_scale,
      score_rank |-> rank_score, score_genre |-> genre_score,
      score_overall |-> overall_score,
      total_score |-> rank_score + genre_score + overall_score]

RECURSIVE collect_keywords(_, _, _)
\* lines 216-260: the loop over the data rows from the k-th on
collect_keywords(rows, country_filter, k) ==
  IF k > Len(rows) THEN <<>>
  ELSE LET row == rows[k]
           rest == collect_keywords(rows, country_filter, k + 1)
       IN IF row.search_term = "" THEN rest
          ELSE IF country_filter # "" /\ row.country # country_filter THEN rest
          ELSE IF IntRaises(row) THEN rest
          ELSE <<keyword_entry(row)>> \o rest

\* the sheets whose cells are enumerated
RowLists == UNION {[1..n -> DataRows] : n \in 0..MaxRows}

\* the rows of a sheet are to be collected under a country filter
ParseInit ==
  /\ InitBatch
  /\ InitProcs
  /\ fin \in {[fn |-> "collect", rows |-> rs, country_filter |-> cf] :
                 rs \in RowLists, cf \in {"US", "GB", ""}}
  /\ fout = NoArg
  /\ InitTxn
  /\ InitImport
  /\ InitTools

\* lines 212-264: the keywords of the sheet are collected
ParseCall ==
  /\ fin.fn = "collect"
  /\ fout = NoArg
  /\ fout' = [fn |-> "collect",
              keywords |-> collect_keywords(fin.rows, fin.country_filter, 1)]
  /\ UNCHANGED <<batchVars, fin, txn, repVars>>

ParseSpec == ParseInit /\ [][ParseCall]_vars

\* ---------------------------------------------------------------- transaction
\* the exceptions a statement or the caller's code raises in the scope
Exceptions == {"sqlite3.Error", "ValueError", "KeyboardInterrupt"}

\* the write made by the next statement
NextWrite == txn.n + 1

\* lines 44-46: a caller enters `with transaction()`; the connection is
\* opened and yielded (pre: what is committed at that moment)
TxEnter ==
  /\ txn.pc \in {"idle", "returned", "raised"}
  /\ txn.scopes < MaxScopes
  /\ txn' = [txn EXCEPT !.pc = "body", !.pre = txn.committed, !.made = {},
                        !.exc = None, !.scopes = @ + 1]
  /\ UNCHANGED <<batchVars, fnVars, repVars>>

\* the caller runs conn.execute or conn.executemany with an INSERT, UPDATE
\* or DELETE: the write joins the open transaction of the connection
TxExecute ==
  /\ txn.pc = "body"
  /\ NextWrite <= MaxStmts
  /\ txn' = [txn EXCEPT !.pending = @ \cup {NextWrite}, !.made = @ \cup {NextWrite},
                        !.n = @ + 1]
  /\ UNCHANGED <<batchVars, fnVars, repVars>>

\* the caller runs conn.executescript (migrations.py line 77) with n
\* statements of which the first k succeed: sqlite3 commits the open
\* transaction first and runs the script outside any transaction, each
\* statement committed as it completes; with k < n the failing statement
\* raises, line 48 catches it, line 49 rolls back and line 50 re-raises
TxExecuteScript(n, k) ==
  /\ txn.pc = "body"
  /\ k <= n
  /\ NextWrite + k - 1 <= MaxStmts
  /\ LET ws == NextWrite..(NextWrite + k - 1)
     IN txn' = [txn EXCEPT !.committed = @ \cup txn.pending \cup ws,
                           !.pending = {},
                           !.made = @ \cup ws,
                           !.n = @ + k,
                           !.pc = IF k < n THEN "raised" ELSE "body",
                           !.exc = IF k < n THEN "sqlite3.Error" ELSE None]
  /\ UNCHANGED <<batchVars, fnVars, repVars>>

\* a statement of the caller (conn.execute) or the caller's code raises e:
\* an Exception is caught at line 48, rolled back and re-raised; any other
\* exception skips the handler and line 52 closes the connection, which
\* drops the open transaction
TxRaise(e) ==
  /\ txn.pc = "body"
  /\ txn' = [txn EXCEPT !.pending = {}, !.pc = "raised", !.exc = e]
  /\ UNCHANGED <<batchVars, fnVars, repVars>>

\* line 47: the scope ends normally and conn.commit() commits the open
\* transaction
TxExit ==
  /\ txn.pc = "body"
  /\ txn' = [txn EXCEPT !.committed = @ \cup txn.pending, !.pending = {},
                        !.pc = "returned"]
  /\ UNCHANGED <<batchVars, fnVars, repVars>>

\* lines 47-50: conn.commit() itself raises; rollback and re-raise
TxCommitRaises ==
  /\ txn.pc = "body"
  /\ txn' = [txn EXCEPT !.pending = {}, !.pc = "raised", !.exc = "sqlite3.Error"]
  /\ UNCHANGED <<batchVars, fnVars, repVars>>

\* Scopes of transaction() whose callers run execute statements only.
TxNext ==
  \/ TxEnter
  \/ TxExecute
  \/ \E e \in Exceptions : TxRaise(e)
  \/ TxExit
  \/ TxCommitRaises

TxSpec == Init /\ [][TxNext]_vars

\* Scopes of transaction() whose callers may also run executescript.
TxScriptNext ==
  \/ TxNext
  \/ \E n \in 1..MaxStmts, k \in 0..MaxStmts : TxExecuteScript(n, k)

TxScriptSpec == Init /\ [][TxScriptNext]_vars

\* ---------------------------------------------------------------- actions
\* The wall clock advances.
Tick ==
  /\ now < MaxClock
  /\ now' = now + 1
  /\ UNCHANGED <<keyword_batches, items, procVars, histVars>>
  /\ UNCHANGED extVars

\* create_batch_from_json: n descriptors in the file, r of them resolve to a
\* Keyword row.  One transaction: with r = 0 it raises and rolls back.
CreateBatch(n, r) ==
  /\ ~BatchExists
  /\ r > 0
  /\ keyword_batches' = <<[status |-> "pending", total_keywords |-> r,
               completed_keywords |-> 0, failed_keywords |-> 0,
               started_at |-> NULL, completed_at |-> NULL,
               duration_seconds |-> NULL]>>
  /\ items' = [i \in 1..r |-> NewItem(i)]
  /\ toolCalls' = [i \in 1..r |-> 0]
  /\ outcome' = [i \in 1..r |-> None]
  /\ UNCHANGED <<now, procVars, runs, kills>>
  /\ UNCHANGED extVars

CreateBatchFails(n, r) ==
  /\ ~BatchExists
  /\ r = 0
  /\ UNCHANGED vars

\* lines 58-66: the active report of a month with a Keyword row of a country
\* (NULL when there is none)
active_report(month, country) ==
  LET S == {r \in 1..Len(apple_reports) :
              /\ apple_reports[r].data_month = month
              /\ apple_reports[r].is_active
              /\ \E k \in 1..Len(apple_keywords) :
                   /\ apple_keywords[k].report_id = r
                   /\ apple_keywords[k].country = country}
  IN IF S = {} THEN NULL ELSE CHOOSE r \in S : TRUE

\* lines 96-103: the id of the Keyword row of a report, country and search
\* term (NULL when there is none)
kw_row(report_id, country, search_term) ==
  LET S == {k \in 1..Len(apple_keywords) :
              /\ apple_keywords[k].report_id = report_id
              /\ apple_keywords[k].country = country
              /\ apple_keywords[k].search_term = search_term}
  IN IF S = {} THEN NULL ELSE CHOOSE k \in S : TRUE

RECURSIVE ResolveFrom(_, _, _, _)
\* lines 91-118: the loop over the descriptors from the k-th on, looking
\* each up by the report and the country of the FIRST descriptor
ResolveFrom(descs, report_id, country, k) ==
  IF k > Len(descs) THEN <<>>
  ELSE LET row == kw_row(report_id, country, descs[k].search_term)
       IN IF row # NULL
          THEN <<row>> \o ResolveFrom(descs, report_id, country, k + 1)
          ELSE ResolveFrom(descs, report_id, country, k + 1)

\* lines 46-48: month and country of the first descriptor
first_kw == cin.descs[1]

\* create_batch_from_json is called on a file (f: the file exists, ds: its
\* entries).
CreateStart ==
  /\ cpc = "idle"
  /\ ~BatchExists
  /\ \E f \in BOOLEAN, ds \in DescLists :
       /\ ~f => ds = <<>>
       /\ cin' = [exists |-> f, descs |-> ds]
  /\ cpc' = "checks"
  /\ cend' = None
  /\ UNCHANGED <<keyword_batches, items, now, procVars, histVars, waits, before,
                 searches, ctx, batch_keywords>>
  /\ UNCHANGED impVars

\* lines 32-71: the checks before the transaction
CreateChecks ==
  /\ cpc = "checks"
  /\ IF \/ ~cin.exists
        \/ cin.descs = <<>>
        \/ first_kw.month = None \/ first_kw.country = None
        \/ active_report(first_kw.month, first_kw.country) = NULL
     THEN cpc' = "raised" /\ cend' = "checks"
     ELSE cpc' = "insert" /\ UNCHANGED cend
  /\ UNCHANGED <<keyword_batches, items, now, procVars, histVars, waits, before,
                 searches, cin, ctx, batch_keywords>>
  /\ UNCHANGED impVars

\* mutant: the Batch row is committed as soon as it is inserted
CreateInsertBatch_autocommit ==
  /\ cpc = "insert"
  /\ ctx' = [ctx EXCEPT !.batch = <<[status |-> "pending", total_keywords |-> Len(cin.descs),
                 completed_keywords |-> 0, failed_keywords |-> 0,
                 started_at |-> NULL, completed_at |-> NULL,
                 duration_seconds |-> NULL]>>]
  /\ keyword_batches' = ctx'.batch
  /\ cpc' = "lookup"
  /\ UNCHANGED <<items, now, procVars, histVars, waits, before,
                 searches, cin, batch_keywords, cend>>
  /\ UNCHANGED impVars

\* lines 79-86: the transaction begins, INSERT INTO keyword_batches with
\* total_keywords = len(keywords)
CreateInsertBatch ==
  /\ cpc = "insert"
  /\ ctx' = [ctx EXCEPT !.batch = <<[status |-> "pending", total_keywords |-> Len(cin.descs),
                 completed_keywords |-> 0, failed_keywords |-> 0,
                 started_at |-> NULL, completed_at |-> NULL,
                 duration_seconds |-> NULL]>>]
  /\ cpc' = "lookup"
  /\ UNCHANGED <<keyword_batches, items, now, procVars, histVars, waits, before,
                 searches, cin, batch_keywords, cend>>
  /\ UNCHANGED impVars

\* lines 88-121: the lookups; with nothing resolved ValueError is raised and
\* the transaction rolls back
CreateResolve ==
  /\ cpc = "lookup"
  /\ LET found == ResolveFrom(cin.descs,
                     active_report(first_kw.month, first_kw.country),
                     first_kw.country, 1)
     IN IF found = <<>>
        THEN /\ cpc' = "raised" /\ cend' = "lookup"
             /\ ctx' = NoTx
             /\ UNCHANGED batch_keywords
        ELSE /\ cpc' = "items"
             /\ batch_keywords' = found
             /\ UNCHANGED <<ctx, cend>>
  /\ UNCHANGED <<keyword_batches, items, now, procVars, histVars, waits, before,
                 searches, cin>>
  /\ UNCHANGED impVars

\* lines 124-129: executemany INSERT INTO batch_keywords
CreateInsertItems ==
  /\ cpc = "items"
  /\ ctx' = [ctx EXCEPT !.rows = [i \in 1..Len(batch_keywords) |-> NewRow(batch_keywords[i])]]
  /\ cpc' = "total"
  /\ UNCHANGED <<keyword_batches, items, now, procVars, histVars, waits, before,
                 searches, cin, batch_keywords, cend>>
  /\ UNCHANGED impVars

\* mutant: total_keywords keeps the number of descriptors
CreateUpdateTotal_skip ==
  /\ cpc = "total"
  /\ cpc' = "commit"
  /\ UNCHANGED <<keyword_batches, items, now, procVars, histVars, waits, before,
                 searches, cin, ctx, batch_keywords, cend>>
  /\ UNCHANGED impVars

\* lines 132-135: UPDATE keyword_batches SET total_keywords = len(batch_keywords)
CreateUpdateTotal ==
  /\ cpc = "total"
  /\ ctx' = [ctx EXCEPT !.batch[1].total_keywords = Len(batch_keywords)]
  /\ cpc' = "commit"
  /\ UNCHANGED <<keyword_batches, items, now, procVars, histVars, waits, before,
                 searches, cin, batch_keywords, cend>>
  /\ UNCHANGED impVars

\* the with block ends: the writes of the transaction are committed together
\* and the batch id is returned
CreateCommit ==
  /\ cpc = "commit"
  /\ keyword_batches' = ctx.batch
  /\ items' = ctx.rows
  /\ toolCalls' = [i \in 1..Len(ctx.rows) |-> 0]
  /\ outcome' = [i \in 1..Len(ctx.rows) |-> None]
  /\ ctx' = NoTx
  /\ batch_keywords' = <<>>
  /\ cpc' = "returned"
  /\ UNCHANGED <<now, procVars, runs, kills, waits, before, searches, cin, cend>>
  /\ UNCHANGED impVars

\* The creating process is killed between two steps: its locals and the
\* uncommitted writes of its transaction are lost.
CreateKill ==
  /\ cpc \in {"checks", "insert", "lookup", "items", "total", "commit"}
  /\ cend' = cpc
  /\ cpc' = "killed"
  /\ ctx' = NoTx
  /\ batch_keywords' = <<>>
  /\ UNCHANGED <<keyword_batches, items, now, procVars, histVars, waits, before,
                 searches, cin>>
  /\ UNCHANGED impVars

\* A process_batch invocation starts (the process command is run).
Invoke(p, rl) ==
  /\ ~Running(p)
  /\ \A q \in Procs : ~Running(q)
  /\ runs < MaxRuns
  /\ runs' = runs + 1
  /\ pc' = [pc EXCEPT ![p] = "load"]
  /\ keywords' = [keywords EXCEPT ![p] = <<>>]
  /\ idx' = [idx EXCEPT ![p] = 0]
  /\ succeeded' = [succeeded EXCEPT ![p] = 0]
  /\ failed' = [failed EXCEPT ![p] = 0]
  /\ rate' = [rate EXCEPT ![p] = rl]
  /\ result' = [result EXCEPT ![p] = NoResult]
  /\ ret' = [ret EXCEPT ![p] = <<>>]
  /\ UNCHANGED <<keyword_batches, items, now, toolCalls, outcome, kills>>
  /\ waits' = [waits EXCEPT ![p] = 0]
  /\ UNCHANGED <<before, createVars>>

\* mutant: the early return on an empty queue is missing
Load_noEarlyReturn(p) ==
  /\ pc[p] = "load"
  /\ IF ~BatchExists
     THEN /\ pc' = [pc EXCEPT ![p] = "raised"]
          /\ UNCHANGED keywords
     ELSE /\ keywords' = [keywords EXCEPT ![p] = PendingKeywords(items)]
          /\ pc' = [pc EXCEPT ![p] = "begin"]
  /\ UNCHANGED <<keyword_batches, items, now, idx, succeeded, failed, rate, result, ret, histVars>>
  /\ UNCHANGED extVars

\* Another process_batch invocation starts, whatever the other processes do:
\* nothing in process_batch or main takes a lock on the batch.
InvokeConc(p, rl) ==
  /\ pc[p] = "idle"
  /\ runs < MaxRuns
  /\ runs' = runs + 1
  /\ pc' = [pc EXCEPT ![p] = "load"]
  /\ keywords' = [keywords EXCEPT ![p] = <<>>]
  /\ idx' = [idx EXCEPT ![p] = 0]
  /\ succeeded' = [succeeded EXCEPT ![p] = 0]
  /\ failed' = [failed EXCEPT ![p] = 0]
  /\ rate' = [rate EXCEPT ![p] = rl]
  /\ result' = [result EXCEPT ![p] = NoResult]
  /\ ret' = [ret EXCEPT ![p] = <<>>]
  /\ waits' = [waits EXCEPT ![p] = 0]
  /\ UNCHANGED <<keyword_batches, items, now, toolCalls, outcome, kills, before, createVars>>

\* lines 131-159: load the batch and its pending rows
Load(p) ==
  /\ pc[p] = "load"
  /\ IF ~BatchExists
     THEN /\ pc' = [pc EXCEPT ![p] = "raised"]
          /\ UNCHANGED <<keywords, ret>>
     ELSE /\ keywords' = [keywords EXCEPT ![p] = PendingKeywords(items)]
          /\ IF PendingKeywords(items) = <<>>
             THEN /\ pc' = [pc EXCEPT ![p] = "returned"]
                  /\ ret' = [ret EXCEPT ![p] = <<0, 0>>]
             ELSE /\ pc' = [pc EXCEPT ![p] = "begin"]
                  /\ UNCHANGED ret
  /\ UNCHANGED <<keyword_batches, items, now, idx, succeeded, failed, rate, result, histVars>>
  /\ UNCHANGED extVars

\* lines 161-172: batch -> in_progress, started_at stamped
Begin(p) ==
  /\ pc[p] = "begin"
  /\ keyword_batches' = [keyword_batches EXCEPT ![BatchId] =
                            [@ EXCEPT !.status = "in_progress", !.started_at = now]]
  /\ idx' = [idx EXCEPT ![p] = 1]
  /\ pc' = [pc EXCEPT ![p] = IF keywords[p] = <<>> THEN "final" ELSE "mark"]
  /\ UNCHANGED <<items, now, keywords, succeeded, failed, rate, result, ret, histVars>>
  /\ UNCHANGED extVars

\* mutant: the in_progress write of line 183 is missing
Mark_noStatus(p) ==
  /\ pc[p] = "mark"
  /\ pc' = [pc EXCEPT ![p] = "launch"]
  /\ before' = [before EXCEPT ![p] = now]
  /\ UNCHANGED <<keyword_batches, items, now, keywords, idx, succeeded, failed, rate,
                 result, ret, histVars, waits, createVars>>

\* mutant: the item is claimed (UPDATE ... WHERE status = 'pending') and
\* skipped when another process has taken it
Mark_claim(p) ==
  /\ pc[p] = "mark"
  /\ IF items[keywords[p][idx[p]]].status = "pending"
     THEN /\ items' = update_batch_keyword_status(items, keywords[p][idx[p]], "in_progress", None, None)
          /\ pc' = [pc EXCEPT ![p] = "launch"]
          /\ before' = [before EXCEPT ![p] = now]
          /\ UNCHANGED idx
     ELSE /\ IF idx[p] < Len(keywords[p])
             THEN /\ pc' = [pc EXCEPT ![p] = "mark"]
                  /\ idx' = [idx EXCEPT ![p] = @ + 1]
             ELSE /\ pc' = [pc EXCEPT ![p] = "final"]
                  /\ UNCHANGED idx
          /\ UNCHANGED <<items, before>>
  /\ UNCHANGED <<keyword_batches, now, keywords, succeeded, failed, rate,
                 result, ret, histVars, waits, createVars>>

\* lines 183-186: the item is marked in_progress, before_timestamp is taken
Mark(p) ==
  /\ pc[p] = "mark"
  /\ items' = update_batch_keyword_status(items, keywords[p][idx[p]], "in_progress", None, None)
  /\ pc' = [pc EXCEPT ![p] = "launch"]
  /\ UNCHANGED <<keyword_batches, now, keywords, idx, succeeded, failed, rate, result, ret, histVars>>
  /\ before' = [before EXCEPT ![p] = now]
  /\ UNCHANGED <<waits, createVars>>

\* line 191: subprocess.run starts the tool
Launch(p) ==
  /\ pc[p] = "launch"
  /\ toolCalls' = [toolCalls EXCEPT ![keywords[p][idx[p]]] = @ + 1]
  /\ pc' = [pc EXCEPT ![p] = "wait"]
  /\ UNCHANGED <<keyword_batches, items, now, keywords, idx, succeeded, failed, rate, result, ret,
                 outcome, runs, kills>>
  /\ UNCHANGED extVars

\* lines 191-202: the tool exits, times out or subprocess.run raises; after
\* an exit the search record is looked up (found or not)
ToolReturn(p, o, found) ==
  /\ pc[p] = "wait"
  /\ result' = [result EXCEPT ![p] = [outcome |-> o,
                    search_id |-> IF o = "exit0" /\ found THEN SearchId ELSE None]]
  /\ outcome' = [outcome EXCEPT ![keywords[p][idx[p]]] = o]
  /\ pc' = [pc EXCEPT ![p] = "record"]
  /\ UNCHANGED <<keyword_batches, items, now, keywords, idx, succeeded, failed, rate, ret,
                 toolCalls, runs, kills>>
  /\ UNCHANGED <<waits, before, createVars>>

\* the id column of the k-th row of searches
SearchIdOf(k) == "s" \o ToString(k)

\* mutant: no filter on the keyword
Qualifying_anyKeyword(term, after) ==
  {k \in 1..Len(searches) : searches[k].timestamp > after}

\* rows WHERE keyword = ? AND timestamp > ?
Qualifying(term, after) ==
  {k \in 1..Len(searches) : searches[k].keyword = term /\ searches[k].timestamp > after}

\* find_latest_search_id_for_keyword: the values ORDER BY timestamp DESC
\* LIMIT 1 can return (one of the newest rows), None when no row qualifies
find_latest_search_id_for_keyword(term, after) ==
  LET Q == Qualifying(term, after)
  IN IF Q = {} THEN {None}
     ELSE {searches[k].id : k \in {j \in Q : \A h \in Q : searches[h].timestamp <= searches[j].timestamp}}

\* A run of the tool (started by the processor or by anyone else) writes a
\* search record for keyword kw.
SearchWrite(kw) ==
  /\ Len(searches) < MaxSearches
  /\ searches' = Append(searches, [id |-> SearchIdOf(Len(searches) + 1),
                                   keyword |-> kw, timestamp |-> now])
  /\ UNCHANGED <<keyword_batches, items, now, procVars, histVars, waits, before, cpc, cin, ctx, batch_keywords, cend>>
  /\ UNCHANGED impVars

\* mutant: the lookup is given the records of the item's own tool run only
ToolReturnSearch_own(p, o, sid) ==
  /\ pc[p] = "wait"
  /\ LET Q == {k \in Qualifying(items[keywords[p][idx[p]]].search_term, before[p]) :
                 searches[k].by = keywords[p][idx[p]]}
     IN sid \in IF Q = {} THEN {None} ELSE {searches[k].id : k \in Q}
  /\ result' = [result EXCEPT ![p] = [outcome |-> o,
                    search_id |-> IF o = "exit0" THEN sid ELSE None]]
  /\ outcome' = [outcome EXCEPT ![keywords[p][idx[p]]] = o]
  /\ pc' = [pc EXCEPT ![p] = "record"]
  /\ UNCHANGED <<keyword_batches, items, now, keywords, idx, succeeded, failed, rate, ret,
                 toolCalls, runs, kills>>
  /\ UNCHANGED <<waits, before, createVars>>

\* lines 191-202 with the searches table: the tool exits, times out or
\* subprocess.run raises; after an exit the search record is looked up
ToolReturnSearch(p, o, sid) ==
  /\ pc[p] = "wait"
  /\ sid \in find_latest_search_id_for_keyword(items[keywords[p][idx[p]]].search_term, before[p])
  /\ result' = [result EXCEPT ![p] = [outcome |-> o,
                    search_id |-> IF o = "exit0" THEN sid ELSE None]]
  /\ outcome' = [outcome EXCEPT ![keywords[p][idx[p]]] = o]
  /\ pc' = [pc EXCEPT ![p] = "record"]
  /\ UNCHANGED <<keyword_batches, items, now, keywords, idx, succeeded, failed, rate, ret,
                 toolCalls, runs, kills>>
  /\ UNCHANGED <<waits, before, createVars>>

\* mutant: a zero exit without a search record is recorded as a failure
Record_noRecordFails(p) ==
  /\ pc[p] = "record"
  /\ LET id == keywords[p][idx[p]]
         r == result[p]
     IN IF r.outcome = "exit0" /\ r.search_id # None
        THEN /\ items' = update_batch_keyword_status(items, id, "completed", r.search_id, None)
             /\ succeeded' = [succeeded EXCEPT ![p] = @ + 1]
             /\ UNCHANGED failed
        ELSE /\ items' = update_batch_keyword_status(items, id, "failed", None,
                              CASE r.outcome = "exit0" -> NoAppsNote
                                [] r.outcome = "nonzero" -> StderrNote
                                [] r.outcome = "timeout" -> TimeoutNote
                                [] OTHER -> ExcNote)
             /\ failed' = [failed EXCEPT ![p] = @ + 1]
             /\ UNCHANGED succeeded
  /\ result' = [result EXCEPT ![p] = NoResult]
  /\ pc' = [pc EXCEPT ![p] = "counters"]
  /\ UNCHANGED <<keyword_batches, now, keywords, idx, rate, ret, histVars>>
  /\ before' = [before EXCEPT ![p] = NULL]
  /\ UNCHANGED <<waits, createVars>>

\* mutant: no "except Exception" clause, an exception of the tool call
\* leaves process_batch
Record_noCatchAll(p) ==
  /\ pc[p] = "record"
  /\ LET id == keywords[p][idx[p]]
         r == result[p]
     IN IF r.outcome = "raise"
        THEN /\ pc' = [pc EXCEPT ![p] = "raised"]
             /\ UNCHANGED <<items, succeeded, failed>>
        ELSE /\ pc' = [pc EXCEPT ![p] = "counters"]
             /\ IF r.outcome = "exit0"
                THEN /\ items' = IF r.search_id # None
                                 THEN update_batch_keyword_status(items, id, "completed", r.search_id, None)
                                 ELSE update_batch_keyword_status(items, id, "completed", None, NoAppsNote)
                     /\ succeeded' = [succeeded EXCEPT ![p] = @ + 1]
                     /\ UNCHANGED failed
                ELSE /\ items' = update_batch_keyword_status(items, id, "failed", None,
                                      IF r.outcome = "nonzero" THEN StderrNote ELSE TimeoutNote)
                     /\ failed' = [failed EXCEPT ![p] = @ + 1]
                     /\ UNCHANGED succeeded
  /\ result' = [result EXCEPT ![p] = NoResult]
  /\ UNCHANGED <<keyword_batches, now, keywords, idx, rate, ret, histVars>>
  /\ before' = [before EXCEPT ![p] = NULL]
  /\ UNCHANGED <<waits, createVars>>

\* lines 204-236: the item's result is persisted and counted
Record(p) ==
  /\ pc[p] = "record"
  /\ LET id == keywords[p][idx[p]]
         r == result[p]
     IN IF r.outcome = "exit0"
        THEN /\ items' = IF r.search_id # None
                         THEN update_batch_keyword_status(items, id, "completed", r.search_id, None)
                         ELSE update_batch_keyword_status(items, id, "completed", None, NoAppsNote)
             /\ succeeded' = [succeeded EXCEPT ![p] = @ + 1]
             /\ UNCHANGED failed
        ELSE /\ items' = update_batch_keyword_status(items, id, "failed", None,
                              CASE r.outcome = "nonzero" -> StderrNote
                                [] r.outcome = "timeout" -> TimeoutNote
                                [] OTHER -> ExcNote)
             /\ failed' = [failed EXCEPT ![p] = @ + 1]
             /\ UNCHANGED succeeded
  /\ result' = [result EXCEPT ![p] = NoResult]
  /\ pc' = [pc EXCEPT ![p] = "counters"]
  /\ UNCHANGED <<keyword_batches, now, keywords, idx, rate, ret, histVars>>
  /\ before' = [before EXCEPT ![p] = NULL]
  /\ UNCHANGED <<waits, createVars>>

\* mutant: the wait is not skipped after the last item
Counters_sleepAfterLast(p) ==
  /\ pc[p] = "counters"
  /\ keyword_batches' = [keyword_batches EXCEPT ![BatchId] = update_batch_counters(@, items)]
  /\ IF rate[p] > 0
     THEN /\ pc' = [pc EXCEPT ![p] = "sleep"]
          /\ UNCHANGED idx
     ELSE IF idx[p] < Len(keywords[p])
          THEN /\ pc' = [pc EXCEPT ![p] = "mark"]
               /\ idx' = [idx EXCEPT ![p] = @ + 1]
          ELSE /\ pc' = [pc EXCEPT ![p] = "final"]
               /\ UNCHANGED idx
  /\ UNCHANGED <<items, now, keywords, succeeded, failed, rate, result, ret, histVars, extVars>>

\* lines 238-243: counters recomputed; then the rate-limit wait or the next item
Counters(p) ==
  /\ pc[p] = "counters"
  /\ keyword_batches' = [keyword_batches EXCEPT ![BatchId] = update_batch_counters(@, items)]
  /\ IF idx[p] < Len(keywords[p]) /\ rate[p] > 0
     THEN /\ pc' = [pc EXCEPT ![p] = "sleep"]
          /\ UNCHANGED idx
     ELSE IF idx[p] < Len(keywords[p])
          THEN /\ pc' = [pc EXCEPT ![p] = "mark"]
               /\ idx' = [idx EXCEPT ![p] = @ + 1]
          ELSE /\ pc' = [pc EXCEPT ![p] = "final"]
               /\ UNCHANGED idx
  /\ UNCHANGED <<items, now, keywords, succeeded, failed, rate, result, ret, histVars>>
  /\ UNCHANGED extVars

\* line 243: time.sleep(rate_limit_seconds) ends
Sleep(p) ==
  /\ pc[p] = "sleep"
  /\ IF idx[p] < Len(keywords[p])
     THEN /\ pc' = [pc EXCEPT ![p] = "mark"]
          /\ idx' = [idx EXCEPT ![p] = @ + 1]
     ELSE /\ pc' = [pc EXCEPT ![p] = "final"]
          /\ UNCHANGED idx
  /\ UNCHANGED <<keyword_batches, items, now, keywords, succeeded, failed, rate, result, ret, histVars>>
  /\ waits' = [waits EXCEPT ![p] = @ + 1]
  /\ UNCHANGED <<before, createVars>>

\* lines 245-265: final status, completed_at, duration; return (the locals
\* end with the call, the loaded queue is kept for the properties)
Final(p) ==
  /\ pc[p] = "final"
  /\ keyword_batches' = [keyword_batches EXCEPT ![BatchId] =
         [@ EXCEPT !.status = FinalStatus(succeeded[p], failed[p]),
                   !.completed_at = now,
                   !.duration_seconds = IF batch.started_at = NULL THEN NULL
                                        ELSE now - batch.started_at]]
  /\ ret' = [ret EXCEPT ![p] = <<succeeded[p], failed[p]>>]
  /\ pc' = [pc EXCEPT ![p] = "returned"]
  /\ idx' = [idx EXCEPT ![p] = 0]
  /\ succeeded' = [succeeded EXCEPT ![p] = 0]
  /\ failed' = [failed EXCEPT ![p] = 0]
  /\ rate' = [rate EXCEPT ![p] = 0]
  /\ UNCHANGED <<items, now, keywords, result, histVars>>
  /\ UNCHANGED extVars

\* The processor process is killed between two steps; its locals are lost.
Kill(p) ==
  /\ Running(p)
  /\ pc' = [pc EXCEPT ![p] = "killed"]
  /\ kills' = TRUE
  /\ keywords' = [keywords EXCEPT ![p] = <<>>]
  /\ idx' = [idx EXCEPT ![p] = 0]
  /\ succeeded' = [succeeded EXCEPT ![p] = 0]
  /\ failed' = [failed EXCEPT ![p] = 0]
  /\ rate' = [rate EXCEPT ![p] = 0]
  /\ result' = [result EXCEPT ![p] = NoResult]
  /\ UNCHANGED <<keyword_batches, items, now, ret, toolCalls, outcome, runs>>
  /\ waits' = [waits EXCEPT ![p] = 0]
  /\ before' = [before EXCEPT ![p] = NULL]
  /\ UNCHANGED createVars

\* mutant: exit code 1 only when no item succeeded
main_noneSucceeded(p) ==
  IF pc[p] = "raised" THEN 1
  ELSE IF ret[p][2] = 0 \/ ret[p][1] > 0 THEN 0 ELSE 1

\* lines 288-302: the exit code of the process command once process_batch
\* has returned (succeeded, failed) or raised
main(p) ==
  IF pc[p] = "raised" THEN 1
  ELSE IF ret[p][2] = 0 THEN 0 ELSE 1

ProcStep(p) ==
  \/ Load(p)
  \/ Begin(p)
  \/ Mark(p)
  \/ Launch(p)
  \/ \E o \in ToolOutcomes, found \in BOOLEAN : ToolReturn(p, o, found)
  \/ Record(p)
  \/ Counters(p)
  \/ Sleep(p)
  \/ Final(p)

Next ==
  \/ Tick
  \/ \E n \in 1..MaxItems, r \in 0..MaxItems : r <= n /\ CreateBatch(n, r)
  \/ \E n \in 1..MaxItems, r \in 0..MaxItems : r <= n /\ CreateBatchFails(n, r)
  \/ \E p \in SeqProcs, rl \in {0, 2} : Invoke(p, rl)
  \/ \E p \in SeqProcs : ProcStep(p)
  \/ \E p \in SeqProcs : Kill(p)

\* Non-overlapping invocations of the process command, kills included.
Spec == Init /\ [][Next]_vars

\* the id of a second batch
OtherBatchId == 2

\* create_batch_from_json is run once more, for one Keyword row: a second
\* Batch row and its BatchItem row are inserted.
CreateOtherBatch ==
  /\ BatchExists
  /\ Len(keyword_batches) = 1
  /\ keyword_batches' = Append(keyword_batches,
               [status |-> "pending", total_keywords |-> 1,
                completed_keywords |-> 0, failed_keywords |-> 0,
                started_at |-> NULL, completed_at |-> NULL,
                duration_seconds |-> NULL])
  /\ items' = Append(items, [NewRow(1) EXCEPT !.batch_id = OtherBatchId])
  /\ toolCalls' = Append(toolCalls, 0)
  /\ outcome' = Append(outcome, None)
  /\ UNCHANGED <<now, procVars, runs, kills>>
  /\ UNCHANGED extVars

\* The invocations of the process command on one batch of a store that may
\* hold a second batch.
FrameNext ==
  \/ Next
  \/ CreateOtherBatch

FrameSpec == Init /\ [][FrameNext]_vars

\* The same, with a running invocation always taking its next step unless
\* it is killed (every step is bounded: the tool call by its timeout).
FairSpec == Spec /\ \A p \in SeqProcs : WF_vars(ProcStep(p))

\* The clock, running one second longer so that two records newer than a
\* before_timestamp can differ in age.
SearchTick ==
  /\ now < MaxClock + 1
  /\ now' = now + 1
  /\ UNCHANGED <<keyword_batches, items, procVars, histVars, extVars>>

SearchStep(p) ==
  \/ Load(p)
  \/ Begin(p)
  \/ Mark(p)
  \/ Launch(p)
  \/ \E o \in ToolOutcomes, k \in 1..MaxSearches :
        ToolReturnSearch(p, o, SearchIdOf(k)) \/ ToolReturnSearch(p, o, None)
  \/ Record(p)
  \/ Counters(p)
  \/ Sleep(p)
  \/ Final(p)

\* One invocation of the process command on a batch, with the searches
\* table the tool writes and the lookup reads.
SearchNext ==
  \/ SearchTick
  \/ \E n \in 1..MaxItems, r \in 1..MaxItems : r <= n /\ CreateBatch(n, r)
  \/ \E kw \in {apple_keywords[k].search_term : k \in 1..Len(apple_keywords)} : SearchWrite(kw)
  \/ \E p \in SeqProcs : InvokeConc(p, 2)
  \/ \E p \in SeqProcs : SearchStep(p)

SearchSpec == Init /\ [][SearchNext]_vars

\* The tool run that process p waits for writes its search record (by: the
\* BatchItem the run was started for).
ToolWrite(p) ==
  /\ pc[p] = "wait"
  /\ Len(searches) < MaxSearches
  /\ \A k \in 1..Len(searches) : searches[k].by # keywords[p][idx[p]]
  /\ searches' = Append(searches, [id |-> SearchIdOf(Len(searches) + 1),
                                   keyword |-> items[keywords[p][idx[p]]].search_term,
                                   timestamp |-> now, by |-> keywords[p][idx[p]]])
  /\ UNCHANGED <<keyword_batches, items, now, procVars, histVars, waits, before, cpc, cin, ctx, batch_keywords, cend>>
  /\ UNCHANGED impVars

\* While process p has an item in processing (lines 183-202), another
\* process (a user of the tool, another batch) writes a search record for
\* the keyword of that item (by: 0).
ForeignWrite(p) ==
  /\ pc[p] \in {"launch", "wait"}
  /\ Len(searches) < MaxSearches
  /\ searches' = Append(searches, [id |-> SearchIdOf(Len(searches) + 1),
                                   keyword |-> items[keywords[p][idx[p]]].search_term,
                                   timestamp |-> now, by |-> 0])
  /\ UNCHANGED <<keyword_batches, items, now, procVars, histVars, waits, before, cpc, cin, ctx, batch_keywords, cend>>
  /\ UNCHANGED impVars

\* One invocation of the process command on a batch while the tool is also
\* run by others: every search record names the run that wrote it.
ForeignNext ==
  \/ SearchTick
  \/ \E n \in 1..MaxItems, r \in 1..MaxItems : r <= n /\ CreateBatch(n, r)
  \/ \E p \in SeqProcs : ToolWrite(p)
  \/ \E p \in SeqProcs : ForeignWrite(p)
  \/ \E p \in SeqProcs : InvokeConc(p, 2)
  \/ \E p \in SeqProcs : SearchStep(p)

ForeignSpec == Init /\ [][ForeignNext]_vars

\* One call of create_batch_from_json on a store without batches, on any
\* file, run to its return, its raise or a kill.
CreateNext ==
  \/ CreateStart
  \/ CreateChecks
  \/ CreateInsertBatch
  \/ CreateResolve
  \/ CreateInsertItems
  \/ CreateUpdateTotal
  \/ CreateCommit
  \/ CreateKill

CreateSpec == Init /\ [][CreateNext]_vars

RECURSIVE load_rows(_, _)
\* batch_report.py lines 70-164: the loop over the rows of batch_keywords
\* from the k-th on; an entry names its row (k) for reference only
load_rows(its, k) ==
  IF k > Len(its) THEN [results |-> <<>>, failed |-> <<>>]
  ELSE LET bk == its[k]
           rest == load_rows(its, k + 1)
       IN IF bk.keyword_id \notin 1..Len(apple_keywords) THEN rest
          ELSE IF bk.status = "completed" /\ bk.analysis_search_id # None
          THEN [rest EXCEPT !.results =
                  <<[row |-> k, search_term |-> apple_keywords[bk.keyword_id].search_term,
                     search_id |-> bk.analysis_search_id]>> \o @]
          ELSE [rest EXCEPT !.failed =
                  <<[row |-> k, keyword |-> bk.search_term,
                     error |-> bk.error_message]>> \o @]

\* batch_report.py lines 16-30: format_duration, the numbers of its text
\* and the units it shows
format_duration(seconds) ==
  LET hours == seconds \div 3600
      minutes == (seconds % 3600) \div 60
      secs == seconds % 60
  IN IF hours > 0 THEN [units |-> "h m s", hours |-> hours, minutes |-> minutes, secs |-> secs]
     ELSE IF minutes > 0 THEN [units |-> "m s", minutes |-> minutes, secs |-> secs]
     ELSE [units |-> "s", secs |-> secs]

\* batch_report.py line 190: (total_keywords / duration_seconds) * 3600, in
\* tenths of a keyword per hour as "{rate:.1f}" prints it
processing_rate(total_keywords, duration_seconds) ==
  (2 * 36000 * total_keywords + duration_seconds) \div (2 * duration_seconds)

\* batch_report.py lines 168-193: the metadata dictionary, a key being in
\* its domain when the code sets it
batch_metadata(b, lists) ==
  [batch_id |-> BatchId, total_keywords |-> b.total_keywords,
   successful |-> Len(lists.results), failed |-> Len(lists.failed)]
  @@ (IF b.started_at # NULL THEN [started_at |-> b.started_at] ELSE <<>>)
  @@ (IF b.completed_at # NULL THEN [completed_at |-> b.completed_at] ELSE <<>>)
  @@ (IF b.duration_seconds # NULL /\ b.duration_seconds # 0
      THEN [duration_seconds |-> b.duration_seconds,
            duration_formatted |-> format_duration(b.duration_seconds)]
           @@ (IF b.duration_seconds > 0
               THEN [processing_rate |-> processing_rate(b.total_keywords, b.duration_seconds)]
               ELSE <<>>)
      ELSE <<>>)

\* load_batch_results(batch_id): ValueError when the Batch is not found,
\* else the two lists built from the rows read at line 62 and the metadata
LoadBatchResults ==
  /\ fin = NoArg
  /\ fin' = [fn |-> "report", found |-> BatchExists, items |-> items,
             keyword_batches |-> keyword_batches]
  /\ fout' = IF BatchExists
             THEN [fn |-> "report", lists |-> load_rows(items, 1),
                   metadata |-> batch_metadata(batch, load_rows(items, 1))]
             ELSE [fn |-> "raised"]
  /\ UNCHANGED <<batchVars, txn, repVars>>

\* The batch commands and one run of the report command at any moment.
ReportNext ==
  \/ Next
  \/ LoadBatchResults

ReportSpec == Init /\ [][ReportNext]_vars

\* ---------------------------------------------------------------- importer
\* the metadata of the Excel files: two extracts of report "r1", and the
\* reports "r2" and "r3" for the same and for another month and locale
Headers ==
  {[report_id |-> "r1", generated_at |-> 1, month_locale_key |-> "2025-01_en_US"],
   [report_id |-> "r1", generated_at |-> 2, month_locale_key |-> "2025-01_en_US"],
   [report_id |-> "r2", generated_at |-> 1, month_locale_key |-> "2025-01_en_US"],
   [report_id |-> "r3", generated_at |-> 1, month_locale_key |-> "2025-02_en_US"]}

\* the data rows of those files
FileRows ==
  {[search_term |-> "a", country |-> "US", rank |-> IntCell(5), pop_genre |-> IntCell(80),
    pop_overall |-> IntCell(50), pop_scale |-> IntCell(3)],
   [search_term |-> "a", country |-> "GB", rank |-> NoneCell, pop_genre |-> IntCell(80),
    pop_overall |-> IntCell(50), pop_scale |-> NoneCell]}

\* their sheets
Sheets == UNION {[1..n -> FileRows] : n \in 0..MaxRows}

\* the files import_report is called on: readable files, files whose row 7
\* is not the header row, and a file whose metadata do not parse
Files ==
  {[defect |-> None, report_id |-> h.report_id, generated_at |-> h.generated_at,
    month_locale_key |-> h.month_locale_key, rows |-> rs] : h \in Headers, rs \in Sheets}
  \cup
  {[defect |-> "header", report_id |-> h.report_id, generated_at |-> h.generated_at,
    month_locale_key |-> h.month_locale_key, rows |-> <<>>] : h \in Headers}
  \cup {NoFile}

\* the files of the overlapping imports: readable, with an empty sheet
ConcFiles == {f \in Files : f.defect = None /\ f.rows = <<>>}

\* the country_filter argument
CountryFilter == "US"

\* mutant: no report is ever found
check_existing_report_none(report_id, generated_at) == NULL

\* check_existing_report: the id of the row with this report_id and
\* generated_at, NULL when there is none
check_existing_report(report_id, generated_at) ==
  LET S == {r \in 1..Len(ar) : ar[r].report_id = report_id
                                /\ ar[r].generated_at = generated_at}
  IN IF S = {} THEN NULL ELSE CHOOSE r \in S : TRUE

\* the active reports of a month_locale_key
ActiveReports(key) ==
  {r \in 1..Len(ar) : ar[r].month_locale_key = key /\ ar[r].is_active}

\* no connection holds the write lock of the database
NoWriter == \A q \in Procs : itx[q] = NoImportTx

ImportRunning(p) == ipc[p] \in {"check", "collect", "deactivate", "insert", "keywords", "commit"}

\* import_report is called on a file.
ImportStart(p, f) ==
  /\ ~ImportRunning(p)
  /\ Len(ar) < MaxReports \/ check_existing_report(f.report_id, f.generated_at) # NULL
  /\ ipc' = [ipc EXCEPT ![p] = "check"]
  /\ ifile' = [ifile EXCEPT ![p] = f]
  /\ ikw' = [ikw EXCEPT ![p] = <<>>]
  /\ iret' = [iret EXCEPT ![p] = NULL]
  /\ iprev' = [iprev EXCEPT ![p] = ActiveReports(f.month_locale_key)]
  /\ UNCHANGED <<batchVars, fnVars, txn, ar, ak, itx, ifail, ukpc>>

\* lines 157-206: the file is read, its metadata parsed, an already
\* imported report returned, the header row found
ImportCheck(p) ==
  /\ ipc[p] = "check"
  /\ LET f == ifile[p]
         existing_id == check_existing_report(f.report_id, f.generated_at)
     IN IF f.defect = "metadata"
        THEN /\ ipc' = [ipc EXCEPT ![p] = "raised"]
             /\ ifail' = TRUE
             /\ UNCHANGED iret
        ELSE IF existing_id # NULL
        THEN /\ ipc' = [ipc EXCEPT ![p] = "returned"]
             /\ iret' = [iret EXCEPT ![p] = existing_id]
             /\ UNCHANGED ifail
        ELSE IF f.defect = "header"
        THEN /\ ipc' = [ipc EXCEPT ![p] = "raised"]
             /\ ifail' = TRUE
             /\ UNCHANGED iret
        ELSE /\ ipc' = [ipc EXCEPT ![p] = "collect"]
             /\ UNCHANGED <<iret, ifail>>
  /\ UNCHANGED <<batchVars, fnVars, txn, ar, ak, ifile, ikw, itx, iprev, ukpc>>

\* lines 208-264: the keywords of the sheet are collected
ImportCollect(p) ==
  /\ ipc[p] = "collect"
  /\ ikw' = [ikw EXCEPT ![p] = collect_keywords(ifile[p].rows, CountryFilter, 1)]
  /\ ipc' = [ipc EXCEPT ![p] = "deactivate"]
  /\ UNCHANGED <<batchVars, fnVars, txn, ar, ak, ifile, itx, iret, iprev, ifail, ukpc>>

\* mutant: the old reports are not deactivated
ImportDeactivate_skip(p) ==
  /\ ipc[p] = "deactivate"
  /\ NoWriter
  /\ ipc' = [ipc EXCEPT ![p] = "insert"]
  /\ UNCHANGED <<batchVars, fnVars, txn, ar, ak, ifile, ikw, itx, iret, iprev, ifail, ukpc>>

\* line 273, deactivate_old_reports (lines 118-138): inside the scope of
\* line 271, which has written nothing yet, a second connection runs the
\* UPDATE in a transaction of its own and commits it
ImportDeactivate(p) ==
  /\ ipc[p] = "deactivate"
  /\ NoWriter
  /\ ar' = [r \in 1..Len(ar) |->
              IF ar[r].month_locale_key = ifile[p].month_locale_key
              THEN [ar[r] EXCEPT !.is_active = FALSE] ELSE ar[r]]
  /\ ipc' = [ipc EXCEPT ![p] = "insert"]
  /\ UNCHANGED <<batchVars, fnVars, txn, ak, ifile, ikw, itx, iret, iprev, ifail, ukpc>>

\* mutant: the new report is inserted with is_active 0
ImportInsertReport_inactive(p) ==
  /\ ipc[p] = "insert"
  /\ NoWriter
  /\ itx' = [itx EXCEPT ![p].report =
         <<[report_id |-> ifile[p].report_id, generated_at |-> ifile[p].generated_at,
            month_locale_key |-> ifile[p].month_locale_key,
            total_keywords |-> Len(ikw[p]), is_active |-> FALSE]>>]
  /\ ipc' = [ipc EXCEPT ![p] = "keywords"]
  /\ UNCHANGED <<batchVars, fnVars, txn, ar, ak, ifile, ikw, iret, iprev, ifail, ukpc>>

\* mutant: total_keywords is the number of data rows of the sheet
ImportInsertReport_rowCount(p) ==
  /\ ipc[p] = "insert"
  /\ NoWriter
  /\ itx' = [itx EXCEPT ![p].report =
         <<[report_id |-> ifile[p].report_id, generated_at |-> ifile[p].generated_at,
            month_locale_key |-> ifile[p].month_locale_key,
            total_keywords |-> Len(ifile[p].rows), is_active |-> TRUE]>>]
  /\ ipc' = [ipc EXCEPT ![p] = "keywords"]
  /\ UNCHANGED <<batchVars, fnVars, txn, ar, ak, ifile, ikw, iret, iprev, ifail, ukpc>>

\* lines 276-284: INSERT INTO apple_reports, is_active 1; the connection of
\* line 271 takes the write lock
ImportInsertReport(p) ==
  /\ ipc[p] = "insert"
  /\ NoWriter
  /\ itx' = [itx EXCEPT ![p].report =
         <<[report_id |-> ifile[p].report_id, generated_at |-> ifile[p].generated_at,
            month_locale_key |-> ifile[p].month_locale_key,
            total_keywords |-> Len(ikw[p]), is_active |-> TRUE]>>]
  /\ ipc' = [ipc EXCEPT ![p] = "keywords"]
  /\ UNCHANGED <<batchVars, fnVars, txn, ar, ak, ifile, ikw, iret, iprev, ifail, ukpc>>

\* the row of apple_keywords for an entry of the list keywords
KeywordRow(rid, kw) ==
  [report_id |-> rid, country |-> kw.country, search_term |-> kw.search_term,
   rank_in_genre |-> kw.rank_in_genre, popularity_genre |-> kw.popularity_genre,
   popularity_overall |-> kw.popularity_overall, popularity_scale |-> kw.popularity_scale,
   score_rank |-> kw.score_rank, score_genre |-> kw.score_genre,
   score_overall |-> kw.score_overall, total_score |-> kw.total_score]

\* lines 286-302: executemany INSERT INTO apple_keywords with the new
\* report id (lastrowid)
ImportInsertKeywords(p) ==
  /\ ipc[p] = "keywords"
  /\ itx' = [itx EXCEPT ![p].keywords =
         [k \in 1..Len(ikw[p]) |-> KeywordRow(Len(ar) + 1, ikw[p][k])]]
  /\ ipc' = [ipc EXCEPT ![p] = "commit"]
  /\ UNCHANGED <<batchVars, fnVars, txn, ar, ak, ifile, ikw, iret, iprev, ifail, ukpc>>

\* the scope of line 271 ends: its writes are committed, the new id returned
ImportCommit(p) ==
  /\ ipc[p] = "commit"
  /\ ar' = ar \o itx[p].report
  /\ ak' = ak \o itx[p].keywords
  /\ itx' = [itx EXCEPT ![p] = NoImportTx]
  /\ iret' = [iret EXCEPT ![p] = Len(ar) + 1]
  /\ ikw' = [ikw EXCEPT ![p] = <<>>]
  /\ ipc' = [ipc EXCEPT ![p] = "returned"]
  /\ UNCHANGED <<batchVars, fnVars, txn, ifile, iprev, ifail, ukpc>>

\* a statement of lines 276-302 or the commit raises (sqlite3.Error): the
\* scope of line 271 rolls back and import_report raises
ImportRaise(p) ==
  /\ ipc[p] \in {"insert", "keywords", "commit"}
  /\ itx' = [itx EXCEPT ![p] = NoImportTx]
  /\ ikw' = [ikw EXCEPT ![p] = <<>>]
  /\ ipc' = [ipc EXCEPT ![p] = "raised"]
  /\ ifail' = TRUE
  /\ UNCHANGED <<batchVars, fnVars, txn, ar, ak, ifile, iret, iprev, ukpc>>

\* The importing process is killed between two steps: its uncommitted
\* writes are lost.
ImportKill(p) ==
  /\ ImportRunning(p)
  /\ itx' = [itx EXCEPT ![p] = NoImportTx]
  /\ ikw' = [ikw EXCEPT ![p] = <<>>]
  /\ ipc' = [ipc EXCEPT ![p] = "killed"]
  /\ ifail' = TRUE
  /\ UNCHANGED <<batchVars, fnVars, txn, ar, ak, ifile, iret, iprev, ukpc>>

ImportStep(p) ==
  \/ ImportCheck(p)
  \/ ImportCollect(p)
  \/ ImportDeactivate(p)
  \/ ImportInsertReport(p)
  \/ ImportInsertKeywords(p)
  \/ ImportCommit(p)

RECURSIVE uk_keywords(_, _)
\* import_uk_keywords.py lines 54-86: the loop over the data rows from the
\* k-th on (the cells of the sheets are integers or empty)
uk_keywords(rows, k) ==
  IF k > Len(rows) THEN <<>>
  ELSE LET row == rows[k]
           rest == uk_keywords(rows, k + 1)
           rank == IntOr(row.rank, 0)
           pop_genre == IntOr(row.pop_genre, 0)
           pop_overall == IntOr(row.pop_overall, 0)
           pop_scale == IntOr(row.pop_scale, 0)
           score_rank == score_rank_in_genre_uk(rank)
           score_genre == score_popularity_in_genre_uk(pop_genre)
           score_overall == score_overall_popularity_uk(pop_overall)
       IN IF row.search_term = "" THEN rest
          ELSE IF row.country # "GB" THEN rest
          ELSE <<[report_id |-> 1, country |-> row.country, search_term |-> row.search_term,
                  rank_in_genre |-> rank, popularity_genre |-> pop_genre,
                  popularity_overall |-> pop_overall, popularity_scale |-> pop_scale,
                  score_rank |-> score_rank, score_genre |-> score_genre,
                  score_overall |-> score_overall,
                  total_score |-> score_rank + score_genre + score_overall]>> \o rest

\* import_uk_keywords.py lines 36-100: the script reads its sheet and
\* inserts the UK keywords into report 1 in one transaction
UKInsert(rows) ==
  /\ ukpc = "idle"
  /\ Len(ar) >= 1
  /\ NoWriter
  /\ ak' = ak \o uk_keywords(rows, 1)
  /\ ukpc' = "inserted"
  /\ UNCHANGED <<batchVars, fnVars, txn, ar, ipc, ifile, ikw, itx, iret, iprev, ifail>>

\* import_uk_keywords.py lines 102-108: a second transaction sets the
\* total_keywords of report 1 to the number of its Keyword rows
UKUpdateTotal ==
  /\ ukpc = "inserted"
  /\ NoWriter
  /\ ar' = [ar EXCEPT ![1].total_keywords =
               Cardinality({k \in 1..Len(ak) : ak[k].report_id = 1})]
  /\ ukpc' = "done"
  /\ UNCHANGED <<batchVars, fnVars, txn, ak, ipc, ifile, ikw, itx, iret, iprev, ifail>>

\* Imports one after the other, with raises and kills.
ImportNext ==
  \/ \E p \in SeqProcs, f \in Files : ImportStart(p, f)
  \/ \E p \in SeqProcs : ImportStep(p)
  \/ \E p \in SeqProcs : ImportRaise(p)
  \/ \E p \in SeqProcs : ImportKill(p)

ImportSpec == Init /\ [][ImportNext]_vars

\* The imports and one run of the UK script, on one store.
UKNext ==
  \/ ImportNext
  \/ \E rows \in Sheets : UKInsert(rows)
  \/ UKUpdateTotal

UKSpec == Init /\ [][UKNext]_vars

\* Imports that may overlap, neither raising nor killed.
ImportConcNext ==
  \/ \E p \in Procs, f \in ConcFiles : ImportStart(p, f)
  \/ \E p \in Procs : ImportStep(p)

ImportConcSpec == Init /\ [][ImportConcNext]_vars

\* ------------------------------------------------------------ analyzer
\* analyze_keywords.py, KeywordAnalyzer.process_keywords.
\* the keyword objects of the input JSON: two with one search term
InputKeywords ==
  {[search_term |-> "a", country |-> "United States"],
   [search_term |-> "a", country |-> "United Kingdom"],
   [search_term |-> "b", country |-> "United States"]}

\* the inputs of process_keywords
KeywordLists == UNION {[1..n -> InputKeywords] : n \in 1..MaxKeywords}

\* lines 173-187: process_keywords is called on a new KeywordAnalyzer (lines
\* 30-31: results and failed empty), the first time on any input, after a
\* kill on the same input; the checkpoint file is loaded if it exists
AnalyzerCall ==
  /\ kz.pc \in {"idle", "killed"}
  /\ kz.calls < MaxCalls
  /\ \E kws \in KeywordLists :
       /\ kz.pc = "killed" => kws = kz.keywords
       /\ LET self_results == IF kz.checkpoint.exists THEN kz.checkpoint.results ELSE <<>>
          IN kz' = [kz EXCEPT !.pc = "loop", !.keywords = kws, !.i = 1,
                              !.results = self_results, !.failed = <<>>,
                              !.successful = 0, !.nfailed = 0,
                              !.processed_terms =
                                 {self_results[r].input.search_term : r \in 1..Len(self_results)},
                              !.analyzed = {}, !.calls = @ + 1]
  /\ UNCHANGED <<storeVars, fnVars, txn, repVars, mg, dl>>

\* lines 259-267: save_checkpoint writes the counts and self.results
save_checkpoint(n_successful, n_failed, self_results) ==
  [exists |-> TRUE, successful |-> n_successful, failed |-> n_failed,
   results |-> self_results]

\* lines 189-228: one pass of the loop, for keyword i; analysis: whether
\* run_analyze returns a result (else None)
AnalyzerItem(analysis) ==
  /\ kz.pc = "loop"
  /\ kz.i <= Len(kz.keywords)
  /\ LET keyword_data == kz.keywords[kz.i]
         search_term == keyword_data.search_term
         total == Len(kz.keywords)
     IN IF search_term \in kz.processed_terms
        THEN /\ analysis
             /\ kz' = [kz EXCEPT !.successful = @ + 1, !.i = @ + 1]
        ELSE LET self_results == IF analysis
                                 THEN Append(kz.results, [input |-> keyword_data])
                                 ELSE kz.results
                 self_failed == IF analysis
                                THEN kz.failed
                                ELSE Append(kz.failed, [keyword |-> search_term,
                                                        input |-> keyword_data])
                 n_successful == IF analysis THEN kz.successful + 1 ELSE kz.successful
                 n_failed == IF analysis THEN kz.nfailed ELSE kz.nfailed + 1
             IN kz' = [kz EXCEPT !.results = self_results, !.failed = self_failed,
                                 !.successful = n_successful, !.nfailed = n_failed,
                                 !.analyzed = @ \cup {kz.i},
                                 !.checkpoint =
                                    IF kz.i % 5 = 0 \/ kz.i = total
                                    THEN save_checkpoint(n_successful, n_failed, self_results)
                                    ELSE @,
                                 !.i = @ + 1]
  /\ UNCHANGED <<storeVars, fnVars, txn, repVars, mg, dl>>

\* lines 230-242: the loop has ended, the dictionary is returned
AnalyzerReturn ==
  /\ kz.pc = "loop"
  /\ kz.i > Len(kz.keywords)
  /\ kz' = [kz EXCEPT !.pc = "returned"]
  /\ UNCHANGED <<storeVars, fnVars, txn, repVars, mg, dl>>

\* The analyzer process is killed in its loop: the object and the locals
\* are lost, the checkpoint file stays.
AnalyzerKill ==
  /\ kz.pc = "loop"
  /\ kz' = [kz EXCEPT !.pc = "killed", !.i = 0, !.results = <<>>, !.failed = <<>>,
                      !.successful = 0, !.nfailed = 0, !.processed_terms = {},
                      !.analyzed = {}]
  /\ UNCHANGED <<storeVars, fnVars, txn, repVars, mg, dl>>

\* A run of process_keywords with a checkpoint file, killed and resumed.
AnalyzerNext ==
  \/ AnalyzerCall
  \/ \E analysis \in BOOLEAN : AnalyzerItem(analysis)
  \/ AnalyzerReturn
  \/ AnalyzerKill

AnalyzerSpec == Init /\ [][AnalyzerNext]_vars

\* ---------------------------------------------------------- migrations
\* db/migrations.py.  A migration file is named by a number (its place in
\* the order of the file names); its script has MaxScript statements, the
\* effect of statement j of file n on the database being <<n, j>>.
MigrationNames == 1..MaxMigrations

\* the elements of a set of names in ascending order (sorted(...glob))
Sorted(S) ==
  [k \in 1..Cardinality(S) |-> CHOOSE n \in S : Cardinality({m \in S : m < n}) = k - 1]

\* mutant: the applied migrations are not filtered out
get_pending_migrations_all == Sorted(mg.files)

\* lines 37-53: get_pending_migrations, the files whose name is not in
\* schema_migrations, sorted
get_pending_migrations ==
  Sorted({n \in mg.files :
            \A r \in 1..Len(mg.schema_migrations) : mg.schema_migrations[r] # n})

\* A migration file is put into the directory.
AddMigration(n) ==
  /\ n \notin mg.files
  /\ mg' = [mg EXCEPT !.files = @ \cup {n}, !.added = TRUE]
  /\ UNCHANGED <<storeVars, fnVars, txn, repVars, kz, dl>>

\* lines 103-118: run_migrations is called; the pending files are listed
\* and with none it returns 0
RunMigrations ==
  /\ mg.pc \in {"idle", "returned"}
  /\ mg.runs < MaxMigrateRuns
  /\ mg' = [mg EXCEPT !.pc = IF get_pending_migrations = <<>> THEN "returned" ELSE "loop",
                      !.pending = get_pending_migrations, !.k = 1,
                      !.applied_count = 0, !.tried = <<>>, !.stopped = FALSE,
                      !.runs = @ + 1, !.added = FALSE,
                      !.new_files = mg.added, !.prev_stopped = mg.stopped,
                      !.start_files = mg.files,
                      !.start_applied = {mg.schema_migrations[r] :
                                           r \in 1..Len(mg.schema_migrations)}]
  /\ UNCHANGED <<storeVars, fnVars, txn, repVars, kz, dl>>

\* lines 119-124 with apply_migration (lines 56-90) on the next pending
\* file: executescript runs the first j statements of the script, each
\* committed as it completes (see TxExecuteScript); with j < MaxScript the
\* next one raises.  After the whole script the INSERT INTO
\* schema_migrations and the commit of line 47 succeed (recorded) or raise.
\* On an exception apply_migration returns False and the loop breaks.
ApplyMigration(j, recorded) ==
  /\ mg.pc = "loop"
  /\ mg.k <= Len(mg.pending)
  /\ j < MaxScript => ~recorded
  /\ LET n == mg.pending[mg.k]
     IN mg' = [mg EXCEPT !.effects = @ \cup {<<n, s>> : s \in 1..j},
                         !.schema_migrations = IF recorded THEN Append(@, n) ELSE @,
                         !.applied_count = IF recorded THEN @ + 1 ELSE @,
                         !.tried = Append(@, n),
                         !.stopped = ~recorded,
                         !.k = @ + 1,
                         !.pc = IF recorded /\ mg.k < Len(mg.pending)
                                THEN "loop" ELSE "returned"]
  /\ UNCHANGED <<storeVars, fnVars, txn, repVars, kz, dl>>

\* Calls of run_migrations one after the other, on a directory that gets
\* new files.
MigrateNext ==
  \/ \E n \in MigrationNames : AddMigration(n)
  \/ RunMigrations
  \/ \E j \in 0..MaxScript, recorded \in BOOLEAN : ApplyMigration(j, recorded)

MigrateSpec == Init /\ [][MigrateNext]_vars

\* ------------------------------------------- appstore_mcp_server launcher

Systems == {"Darwin", "Linux"}
Machines == {"arm64", "aarch64", "x86_64"}

\* main: the installed version decides the cache directory; a cached binary
\* is executed at once, otherwise _download_binary starts, which exits on
\* any platform but macOS on Apple Silicon.
LauncherMain(version, system, machine) ==
  /\ dl.pc \in {"idle", "exec", "exit"}
  /\ dl.launches < MaxLaunches
  /\ dl' = [dl EXCEPT !.version = version, !.launches = @ + 1,
                      !.compared = FALSE, !.mismatch = FALSE,
                      !.downloaded = FALSE,
                      !.executed = IF dl.binary[version] # 0
                                   THEN dl.binary[version] ELSE 0,
                      !.pc = IF dl.binary[version] # 0 THEN "exec"
                             ELSE IF system # "Darwin" THEN "exit"
                             ELSE IF machine \notin {"arm64", "aarch64"} THEN "exit"
                             ELSE "download"]
  /\ UNCHANGED <<storeVars, fnVars, txn, repVars, kz, mg>>

\* urlretrieve writes the archive of the release to download.tar.gz; an
\* HTTPError ends the process.
Download(digest, ok) ==
  /\ dl.pc = "download"
  /\ dl' = IF ok
           THEN [dl EXCEPT !.tar[dl.version] = digest, !.downloaded = TRUE,
                           !.pc = "verify"]
           ELSE [dl EXCEPT !.pc = "exit"]
  /\ UNCHANGED <<storeVars, fnVars, txn, repVars, kz, mg>>

\* The checksum step: expected is the digest in the published .sha256 file,
\* 0 when fetching it raises URLError or OSError.  A digest that differs
\* deletes the archive and exits; a missing checksum file is a warning and
\* the launcher goes on.
VerifyChecksum(expected) ==
  /\ dl.pc = "verify"
  /\ LET actual_hash == dl.tar[dl.version]
     IN dl' = IF expected = 0
              THEN [dl EXCEPT !.pc = "extract"]
              ELSE IF actual_hash # expected
              THEN [dl EXCEPT !.tar[dl.version] = 0, !.mismatch = TRUE,
                              !.pc = "exit"]
              ELSE [dl EXCEPT !.compared = TRUE, !.pc = "extract"]
  /\ UNCHANGED <<storeVars, fnVars, txn, repVars, kz, mg>>

\* tar.extract writes the member appstore to the cache directory and the
\* archive is unlinked.
Extract ==
  /\ dl.pc = "extract"
  /\ dl' = [dl EXCEPT !.binary[dl.version] = dl.tar[dl.version],
                      !.tar[dl.version] = 0, !.pc = "extracted"]
  /\ UNCHANGED <<storeVars, fnVars, txn, repVars, kz, mg>>

\* _download_binary has returned to main, which replaces the process with
\* the binary.
Execv ==
  /\ dl.pc = "extracted"
  /\ dl' = [dl EXCEPT !.executed = dl.binary[dl.version], !.pc = "exec"]
  /\ UNCHANGED <<storeVars, fnVars, txn, repVars, kz, mg>>

LauncherNext ==
  \/ \E version \in 1..MaxVersions, system \in Systems, machine \in Machines :
       LauncherMain(version, system, machine)
  \/ \E digest \in 1..MaxDigest, ok \in BOOLEAN : Download(digest, ok)
  \/ \E expected \in 0..MaxDigest : VerifyChecksum(expected)
  \/ Extract
  \/ Execv

LauncherSpec == Init /\ [][LauncherNext]_vars

\* Invocations of the process command that may overlap.
ConcNext ==
  \/ \E n \in 1..MaxItems, r \in 1..MaxItems : r <= n /\ CreateBatch(n, r)
  \/ \E p \in Procs : InvokeConc(p, 2)
  \/ \E p \in Procs : ProcStep(p)

ConcSpec == Init /\ [][ConcNext]_vars

\* ------------------------------------------------------------ properties
InProgressCount == CountStatus(items, "in_progress")
NoPending == PendingKeywords(items) = <<>>
Quiescent == \A p \in Procs : ~Running(p)
CountersSum == batch.completed_keywords + batch.failed_keywords
ExitZeroCount == Cardinality({i \in 1..Len(items) : outcome[i] = "exit0"})
NotZeroCount == Cardinality({i \in 1..Len(items) : outcome[i] \in {"nonzero", "timeout", "raise"}})

\* C1: in every reachable state of a Batch, completed_keywords +
\* failed_keywords <= total_keywords.
C1_CountersWithinTotal ==
  BatchExists => CountersSum <= batch.total_keywords

C1_Witness ==
  /\ BatchExists /\ kills /\ runs >= 2
  /\ batch.total_keywords >= 2
  /\ CountersSum = batch.total_keywords

\* C2 (as claimed): whenever an invocation returns and no item is pending,
\* completed_keywords + failed_keywords = total_keywords, kills included.
C2_Original ==
  \A p \in Procs :
    (pc[p] = "returned" /\ BatchExists /\ NoPending)
      => CountersSum = batch.total_keywords

\* C2 (amended): whenever an invocation returns and no item is pending,
\* completed_keywords + failed_keywords <= total_keywords minus the number of
\* items left in_progress, with equality when the invocation processed at
\* least one item or no invocation was ever killed.
C2_CountersOnReturn ==
  \A p \in Procs :
    (pc[p] = "returned" /\ BatchExists /\ NoPending)
      => /\ CountersSum <= batch.total_keywords - InProgressCount
         /\ (keywords[p] # <<>> \/ ~kills)
              => CountersSum = batch.total_keywords - InProgressCount

C2_Witness ==
  \E p \in Procs :
    /\ pc[p] = "returned" /\ BatchExists /\ NoPending
    /\ keywords[p] # <<>> /\ kills
    /\ InProgressCount = 1
    /\ CountersSum = batch.total_keywords - 1

\* C3 (as claimed): a Batch whose status is failed has no item with status
\* completed.
C3_FailedHasNoCompleted ==
  (BatchExists /\ batch.status = "failed") => CountStatus(items, "completed") = 0

\* C4: a fresh Batch of n items processed by one uninterrupted invocation
\* returns (s, f), s the number of zero exits, f the number of timeouts,
\* nonzero exits and exceptions, s + f = n; the Batch is completed if s >= 1
\* and failed if s = 0.
C4_FreshRunResult ==
  \A p \in Procs :
    (pc[p] = "returned" /\ runs = 1 /\ BatchExists)
      => /\ ret[p] = <<ExitZeroCount, NotZeroCount>>
         /\ ret[p][1] + ret[p][2] = Len(items)
         /\ batch.status = IF ret[p][1] >= 1 THEN "completed" ELSE "failed"

C4_Witness ==
  \E p \in Procs :
    /\ pc[p] = "returned" /\ runs = 1 /\ BatchExists
    /\ ret[p] = <<1, 1>>
    /\ \E i \in 1..Len(items) : outcome[i] = "timeout"
    /\ batch.status = "completed"

\* C5: an invocation on a Batch with zero pending items returns (0,0) and
\* changes neither the Batch row nor any BatchItem row, whatever the status.
C5_NoopInvocation ==
  [][\A p \in Procs :
       (Running(p) /\ BatchExists /\ NoPending /\ keywords[p] = <<>>)
         => /\ keyword_batches' = keyword_batches
            /\ items' = items
            /\ pc'[p] \in {pc[p], "returned", "killed"}
            /\ pc'[p] = "returned" => ret'[p] = <<0, 0>>]_vars

C5_Witness ==
  \E p \in Procs :
    /\ pc[p] = "returned" /\ ret[p] = <<0, 0>> /\ keywords[p] = <<>>
    /\ runs >= 2 /\ BatchExists /\ NoPending
    /\ batch.status = "in_progress"

\* C6: every status change of a BatchItem is pending -> in_progress,
\* in_progress -> completed or in_progress -> failed; a completed or failed
\* item never changes status again.
C6_ItemTransitions ==
  [][\A i \in 1..Len(items) :
       \/ items'[i].status = items[i].status
       \/ <<items[i].status, items'[i].status>> \in
             {<<"pending", "in_progress">>, <<"in_progress", "completed">>,
              <<"in_progress", "failed">>}]_vars

C6_Witness ==
  /\ kills /\ runs >= 2 /\ Quiescent
  /\ \E i, j \in 1..Len(items) :
       items[i].status = "failed" /\ items[j].status = "completed"

\* C7: a Batch's status only moves forward along pending -> in_progress ->
\* {completed | failed}; once completed or failed it never changes.
C7_BatchTransitions ==
  [][BatchExists =>
       \/ batch'.status = batch.status
       \/ <<batch.status, batch'.status>> \in
             {<<"pending", "in_progress">>, <<"in_progress", "completed">>,
              <<"in_progress", "failed">>}]_vars

C7_Witness ==
  /\ BatchExists /\ batch.status \in Terminal
  /\ runs >= 2 /\ kills /\ Quiescent

\* C8: an invocation that is not killed terminates, and when it returns every
\* item that was pending when it loaded the queue is completed or failed.
C8_RunCompletes ==
  \A p \in Procs :
    (pc[p] = "load") ~>
       \/ pc[p] = "killed"
       \/ pc[p] = "raised" /\ ~BatchExists
       \/ /\ pc[p] = "returned"
          /\ \A k \in 1..Len(keywords[p]) : items[keywords[p][k]].status \in Terminal

C8_Witness ==
  \E p \in Procs :
    /\ pc[p] = "returned" /\ Len(keywords[p]) >= 2
    /\ outcome[keywords[p][1]] = "raise"
    /\ items[keywords[p][2]].status = "completed"

\* C9 (as claimed): when the processor is killed, the persisted counters equal
\* the numbers of completed and failed items.
C9_CountersAccurateOnKill ==
  \A p \in Procs :
    (pc[p] = "killed" /\ BatchExists)
      => /\ batch.completed_keywords = CountStatus(items, "completed")
         /\ batch.failed_keywords = CountStatus(items, "failed")

\* C10: the external tool is invoked at most once for each BatchItem.
C10_AtMostOneToolCall ==
  \A i \in 1..Len(items) : toolCalls[i] <= 1

C10_Witness ==
  /\ kills /\ runs >= 2 /\ Quiescent /\ NoPending
  /\ \E i \in 1..Len(items) : items[i].status = "in_progress" /\ toolCalls[i] = 1

\* C11: killing the processor while an item's tool call is in flight leaves
\* that item in_progress and the Batch in_progress, every earlier item of the
\* run terminal and every later item of the queue pending.
C11_KillInFlight ==
  [][\A p \in Procs :
       (pc[p] = "wait" /\ pc'[p] = "killed")
         => LET q == keywords[p]
            IN /\ items'[q[idx[p]]].status = "in_progress"
               /\ batch'.status = "in_progress"
               /\ \A k \in 1..(idx[p] - 1) : items'[q[k]].status \in Terminal
               /\ \A k \in (idx[p] + 1)..Len(q) : items'[q[k]].status = "pending"]_vars

C11_Witness ==
  \E p \in Procs :
    /\ pc[p] = "killed" /\ runs = 1 /\ BatchExists
    /\ batch.status = "in_progress"
    /\ \E i, j \in 1..Len(items) :
         /\ i < j
         /\ items[i].status \in Terminal
         /\ items[j].status = "in_progress" /\ toolCalls[j] = 1 /\ outcome[j] = None

\* C12: an invocation loads exactly the items that are pending, and neither
\* modifies nor calls the tool for an item outside its queue: an item left
\* in_progress by a crash stays as it is.
C12_OnlyPendingTouched ==
  [][\A p \in Procs :
       /\ (pc[p] = "load" /\ pc'[p] \in {"begin", "returned"})
            => \A i \in 1..Len(items) :
                 (\E k \in 1..Len(keywords'[p]) : keywords'[p][k] = i)
                    <=> items[i].status = "pending"
       /\ (Running(p) /\ pc[p] # "load")
            => \A i \in 1..Len(items) :
                 (\A k \in 1..Len(keywords[p]) : keywords[p][k] # i)
                    => items'[i] = items[i] /\ toolCalls'[i] = toolCalls[i]]_vars

C12_Witness ==
  \E p \in Procs :
    /\ pc[p] = "returned" /\ kills /\ runs >= 2
    /\ Len(keywords[p]) = 1
    /\ items[keywords[p][1]].status \in Terminal
    /\ \E i \in 1..Len(items) :
         /\ i # keywords[p][1]
         /\ items[i].status = "in_progress" /\ toolCalls[i] = 1

\* C13: within one invocation the items are handed to the tool in ascending
\* id order, the tool is called for an item only after every earlier item of
\* the queue is completed or failed and the counters are persisted, and at
\* most one item of the queue is in_progress.
C13_StrictlySequential ==
  [][\A p \in Procs :
       (Running(p) /\ idx[p] >= 1)
         => LET q == keywords[p]
            IN /\ \A k \in 1..(Len(q) - 1) : q[k] < q[k + 1]
               /\ Cardinality({k \in 1..Len(q) : items[q[k]].status = "in_progress"}) <= 1
               /\ toolCalls' # toolCalls
                    => /\ toolCalls' = [toolCalls EXCEPT ![q[idx[p]]] = @ + 1]
                       /\ \A k \in 1..(idx[p] - 1) : items[q[k]].status \in Terminal
                       /\ \A k \in (idx[p] + 1)..Len(q) : toolCalls[q[k]] = 0
                       /\ idx[p] > 1
                            => /\ batch.completed_keywords = CountStatus(items, "completed")
                               /\ batch.failed_keywords = CountStatus(items, "failed")]_vars

C13_Witness ==
  \E p \in Procs :
    /\ pc[p] = "wait" /\ idx[p] = 2
    /\ items[keywords[p][1]].status \in Terminal
    /\ items[keywords[p][2]].status = "in_progress"
    /\ CountersSum = 1

\* C14: with a positive rate limit a wait happens between every two
\* consecutive tool calls of an invocation and none after the last item:
\* n - 1 waits for n items, whatever the outcomes.
C14_RateLimitWaits ==
  [][\A p \in Procs :
       (Running(p) /\ rate[p] > 0 /\ idx[p] >= 1)
         => /\ toolCalls' # toolCalls => waits[p] = idx[p] - 1
            /\ pc'[p] = "returned" => waits'[p] = Len(keywords[p]) - 1]_vars

C14_Witness ==
  \E p \in Procs :
    /\ pc[p] = "returned" /\ Len(keywords[p]) = 2 /\ waits[p] = 1
    /\ \E i \in 1..Len(items) : items[i].status = "failed"

\* C15: two invocations running at the same time are not mutually excluded:
\* each running process has invoked the tool for every item of its own queue
\* that it has reached, whatever the other process did with that item, so an
\* item loaded by both is handed to the tool by both.
Reached(p, i) ==
  \E k \in 1..Len(keywords[p]) :
    /\ keywords[p][k] = i
    /\ \/ k < idx[p]
       \/ k = idx[p] /\ pc[p] \in {"wait", "record", "counters", "sleep", "final"}

C15_NoMutualExclusion ==
  \A i \in 1..Len(items) :
    toolCalls[i] >= Cardinality({p \in Procs : Running(p) /\ Reached(p, i)})

C15_Witness ==
  \E i \in 1..Len(items) :
    /\ toolCalls[i] = 2
    /\ \A p \in Procs : pc[p] = "wait" /\ keywords[p][idx[p]] = i
\* The search records for a term whose creation time is later than a time.
NewerRecordsFor(term, after) ==
  {k \in 1..Len(searches) : searches[k].keyword = term /\ searches[k].timestamp > after}

\* The positions of the queue of p whose item has status s.
QueueWith(p, its, s) == {k \in 1..Len(keywords[p]) : its[keywords[p][k]].status = s}

\* C16: when the tool exits zero and no search record for the item's search
\* term newer than the item's before-timestamp is found, the lookup yields
\* nothing, the item becomes completed with no result link and the
\* explanatory note as its error text, the succeeded count grows by one and
\* the failed count does not, and the returned pair counts the completed and
\* the failed items of the queue.
C16_NoRecordCompletes ==
  [][\A p \in SeqProcs :
       /\ ( /\ pc[p] = "wait" /\ pc'[p] = "record"
            /\ result'[p].outcome = "exit0"
            /\ NewerRecordsFor(items[keywords[p][idx[p]]].search_term, before[p]) = {} )
          => result'[p].search_id = None
       /\ ( /\ pc[p] = "record" /\ pc'[p] = "counters"
            /\ result[p].outcome = "exit0" /\ result[p].search_id = None )
          => LET id == keywords[p][idx[p]]
             IN /\ items'[id].status = "completed"
                /\ items'[id].analysis_search_id = None
                /\ items'[id].error_message = NoAppsNote
                /\ succeeded'[p] = succeeded[p] + 1
                /\ failed'[p] = failed[p]
       /\ (pc[p] = "final" /\ pc'[p] = "returned")
          => ret'[p] = <<Cardinality(QueueWith(p, items', "completed")),
                         Cardinality(QueueWith(p, items', "failed"))>>
    ]_vars

\* The invocation returned having counted as succeeded an item whose tool
\* call exited zero while the only record for its term was not newer than
\* its before-timestamp.
C16_Witness ==
  \E p \in SeqProcs, i \in 1..Len(items) :
    /\ pc[p] = "returned" /\ ret[p][1] >= 1
    /\ items[i].status = "completed" /\ items[i].analysis_search_id = None
    /\ items[i].error_message = NoAppsNote
    /\ \E k \in 1..Len(searches) : searches[k].keyword = items[i].search_term

\* C17: an item carries a result link only if it is completed, its tool call
\* exited zero and the link is the id of a search record for the item's
\* search term; the lookup returns only a record for that term newer than
\* the before-timestamp of the item, and the most recent of those; the link
\* written is the id the lookup returned.
C17_LinkedRecord ==
  [][/\ \A i \in 1..Len(items) :
          items[i].analysis_search_id # None
          => /\ items[i].status = "completed"
             /\ outcome[i] = "exit0"
             /\ \E k \in 1..Len(searches) :
                  /\ searches[k].id = items[i].analysis_search_id
                  /\ searches[k].keyword = items[i].search_term
     /\ \A p \in SeqProcs :
          /\ (pc[p] = "wait" /\ pc'[p] = "record" /\ result'[p].search_id # None)
             => LET Q == NewerRecordsFor(items[keywords[p][idx[p]]].search_term, before[p])
                IN /\ result'[p].outcome = "exit0"
                   /\ before[p] # NULL
                   /\ \E k \in Q :
                        /\ searches[k].id = result'[p].search_id
                        /\ \A h \in Q : searches[h].timestamp <= searches[k].timestamp
          /\ pc[p] = "record"
             => LET id == keywords[p][idx[p]]
                IN /\ items'[id].analysis_search_id # None
                      => /\ items'[id].analysis_search_id = result[p].search_id
                         /\ items'[id].status = "completed"
                   /\ result[p].search_id # None
                      => \E k \in NewerRecordsFor(items[id].search_term, before[p]) :
                           searches[k].id = result[p].search_id
    ]_vars

\* An item is linked to the newer of two records written for its term.
C17_Witness ==
  \E i \in 1..Len(items), k \in 1..Len(searches), h \in 1..Len(searches) :
    /\ items[i].status = "completed"
    /\ items[i].analysis_search_id = searches[k].id
    /\ searches[h].keyword = searches[k].keyword
    /\ searches[h].timestamp < searches[k].timestamp
    /\ items[i].processed_at # NULL

\* The descriptors of the file that the lookup of the call resolves: those
\* with a Keyword row of the report for their search term and the country
\* the call uses.
ResolvedDescs ==
  {k \in 1..Len(cin.descs) :
     \E j \in 1..Len(apple_keywords) :
       /\ apple_keywords[j].report_id = active_report(cin.descs[1].month, cin.descs[1].country)
       /\ apple_keywords[j].country = cin.descs[1].country
       /\ apple_keywords[j].search_term = cin.descs[k].search_term}

\* C18: in every committed state of the store, after a raise or a kill at
\* any step too, the Batch row exists only together with at least one
\* BatchItem row, and there are BatchItem rows only together with the Batch
\* row; a call that raised or was killed has left neither.
C18_NoOrphanBatch ==
  /\ BatchExists => Len(items) >= 1
  /\ ~BatchExists => Len(items) = 0
  /\ cpc \in {"raised", "killed"} => (~BatchExists /\ ctx = NoTx)

\* The call was killed after its last write, before the commit.
C18_Witness ==
  /\ cpc = "killed" /\ cend = "commit"
  /\ ~BatchExists /\ items = <<>>

\* C19: when create_batch_from_json has returned, the Batch is pending, its
\* items are pending, one per resolved descriptor and in their order, each
\* with the search term of its descriptor, and total_keywords is the number
\* of items.
C19_CreatedBatch ==
  cpc = "returned"
    => /\ BatchExists
       /\ batch.status = "pending"
       /\ Len(items) = Cardinality(ResolvedDescs)
       /\ \A k \in ResolvedDescs :
            LET i == Cardinality({h \in ResolvedDescs : h <= k})
            IN /\ items[i].status = "pending"
               /\ items[i].search_term = cin.descs[k].search_term
               /\ apple_keywords[items[i].keyword_id].search_term = cin.descs[k].search_term
       /\ batch.total_keywords = Len(items)
       /\ batch.completed_keywords = 0 /\ batch.failed_keywords = 0

\* A file of two descriptors, one of which resolved.
C19_Witness ==
  /\ cpc = "returned"
  /\ Len(cin.descs) = 2 /\ Len(items) = 1
  /\ batch.total_keywords = 1

\* The descriptors of the file that match a Keyword row of the report by
\* their own country and search term.
MatchingDescs ==
  {k \in 1..Len(cin.descs) :
     \E j \in 1..Len(apple_keywords) :
       /\ apple_keywords[j].report_id = active_report(cin.descs[1].month, cin.descs[1].country)
       /\ apple_keywords[j].country = cin.descs[k].country
       /\ apple_keywords[j].search_term = cin.descs[k].search_term}

\* C20 (as claimed): the items of a created Batch are those of the
\* descriptors that match a Keyword row, the others are excluded; creation
\* raises only on a missing file, an empty selection, a missing month or
\* country, no active report, or when no descriptor matches a Keyword row;
\* after a raise there is no Batch row and no BatchItem row.
C20_UnmatchedExcluded ==
  /\ cpc = "returned"
       => /\ Len(items) = Cardinality(MatchingDescs)
          /\ \A k \in MatchingDescs :
               LET i == Cardinality({h \in MatchingDescs : h <= k})
               IN /\ apple_keywords[items[i].keyword_id].country = cin.descs[k].country
                  /\ items[i].search_term = cin.descs[k].search_term
  /\ cpc = "raised"
       => /\ ~BatchExists /\ items = <<>>
          /\ \/ cend = "checks"
                /\ \/ ~cin.exists
                   \/ cin.descs = <<>>
                   \/ cin.descs[1].month = None \/ cin.descs[1].country = None
                   \/ active_report(cin.descs[1].month, cin.descs[1].country) = NULL
             \/ cend = "lookup" /\ MatchingDescs = {}

\* The documented bands (spec 4.2).
BandRank(x) ==
  CASE x \in 1..10 -> 3 [] x \in 11..25 -> 2 [] x \in 26..50 -> 1 [] OTHER -> 0

BandGenre(x) ==
  CASE x \in 76..100 -> 3 [] x \in 61..75 -> 2 [] x \in 50..60 -> 1 [] OTHER -> 0

BandOverall(x) ==
  CASE x \in 86..100 -> 5 [] x \in 71..85 -> 4 [] x \in 61..70 -> 3
    [] x \in 50..60 -> 2 [] OTHER -> 0

\* C25: for every integer the three score functions of import_report.py
\* return the documented band value, and the functions of the same names in
\* process_keywords.py return the same values.
C25_ScoreBands ==
  fout.fn = "score"
    => /\ fout.rank = BandRank(fin.x)
       /\ fout.genre = BandGenre(fin.x)
       /\ fout.overall = BandOverall(fin.x)
       /\ fout.rank_pk = fout.rank
       /\ fout.genre_pk = fout.genre
       /\ fout.overall_pk = fout.overall

\* The scores of 50, the lower edge of two popularity bands and the upper
\* edge of a rank band, have been computed.
C25_Witness ==
  /\ fout.fn = "score" /\ fin.x = 50
  /\ fout.rank = 1 /\ fout.genre = 1 /\ fout.overall = 2

\* The data rows of the sheet with a search term and the country of the
\* filter.
WantedRows ==
  {k \in 1..Len(fin.rows) :
     fin.rows[k].search_term # "" /\ fin.rows[k].country = fin.country_filter}

\* The value documented for a numeric cell: the integer, or the default
\* when the cell is missing or invalid.
CellValue(c, default) == IF c.kind = "int" THEN c.val ELSE default

\* C27 (as claimed): every data row with a search term and the country of
\* the filter gives exactly one Keyword entry, in their order, with a
\* missing or invalid popularity stored as 0 and a missing or invalid rank
\* as 999; the other rows give none.
C27_RowsKept ==
  (fout.fn = "collect" /\ fin.country_filter # "")
    => /\ Len(fout.keywords) = Cardinality(WantedRows)
       /\ \A k \in WantedRows :
            LET kw == fout.keywords[Cardinality({h \in WantedRows : h <= k})]
            IN /\ kw.search_term = fin.rows[k].search_term
               /\ kw.rank_in_genre = CellValue(fin.rows[k].rank, 999)
               /\ kw.popularity_genre = CellValue(fin.rows[k].pop_genre, 0)
               /\ kw.popularity_overall = CellValue(fin.rows[k].pop_overall, 0)

\* The entries of a list of the report that are for row k of batch_keywords.
EntriesFor(list, k) == {e \in 1..Len(list) : list[e].row = k}

\* C30 (as claimed): load_batch_results puts every BatchItem in exactly one
\* of its two lists: a completed item, with or without a result link, has
\* one entry in results and none in failed; a failed, pending or in_progress
\* item has one entry in failed, with its error text, and none in results.
C30_ReportPartition ==
  fout.fn = "report"
    => \A k \in 1..Len(fin.items) :
         IF fin.items[k].status = "completed"
         THEN /\ Cardinality(EntriesFor(fout.lists.results, k)) = 1
              /\ EntriesFor(fout.lists.failed, k) = {}
         ELSE /\ Cardinality(EntriesFor(fout.lists.failed, k)) = 1
              /\ EntriesFor(fout.lists.results, k) = {}
              /\ \A e \in EntriesFor(fout.lists.failed, k) :
                   fout.lists.failed[e].error = fin.items[k].error_message

\* C29 (as claimed): when the scope of transaction() was left by an
\* exception, none of the writes made through it is committed, what was
\* committed before the scope is still committed, and the caller has the
\* exception that was raised; when the scope ended normally all its writes
\* are committed; inside the scope none of them is committed yet.
C29_ScopedTransaction ==
  /\ txn.pc = "raised"
       => /\ txn.committed = txn.pre
          /\ txn.exc \in Exceptions
  /\ txn.pc = "returned" => txn.committed = txn.pre \cup txn.made
  /\ txn.pc = "body" => txn.committed = txn.pre

\* The month_locale_keys that have a report.
ReportKeys == {ar[r].month_locale_key : r \in 1..Len(ar)}

\* The active reports with a month_locale_key.
ActiveWithKey(key) ==
  {r \in 1..Len(ar) : ar[r].month_locale_key = key /\ ar[r].is_active}

\* The reports with the external report id and generation timestamp of a file.
SameReport(f) ==
  {r \in 1..Len(ar) : ar[r].report_id = f.report_id /\ ar[r].generated_at = f.generated_at}

\* C21 (as claimed): when an import has raised or was killed, the reports of
\* its month_locale_key that were active when it was called are still
\* active.
C21_ImportAllOrNothing ==
  \A p \in Procs :
    ipc[p] \in {"raised", "killed"}
      => \A r \in iprev[p] : ar[r].is_active

\* C22: when only successful imports have run, one after the other,
\* repeated imports of an imported report included, every month_locale_key
\* with a report has exactly one active report.
C22_OneActivePerKey ==
  (~ifail /\ \A p \in Procs : ~ImportRunning(p))
    => \A key \in ReportKeys : Cardinality(ActiveWithKey(key)) = 1

\* Two reports of one key have been imported successfully; the second
\* import returned the new report, which is the active one.
C22_Witness ==
  /\ ~ifail /\ ipc[1] = "returned" /\ iret[1] = 2
  /\ Len(ar) = 2 /\ ar[1].month_locale_key = ar[2].month_locale_key
  /\ ~ar[1].is_active /\ ar[2].is_active

\* C23 (as claimed): with imports that overlap, two different reports of
\* one month_locale_key are never both active.
C23_AtMostOneActive ==
  \A r1 \in 1..Len(ar), r2 \in 1..Len(ar) :
    ( /\ ar[r1].report_id # ar[r2].report_id
      /\ ar[r1].month_locale_key = ar[r2].month_locale_key )
    => ~(ar[r1].is_active /\ ar[r2].is_active)

\* C24: an import of a file whose report id and generation timestamp are
\* those of a report in the store returns the id of that report and leaves
\* both tables as they are; the store never holds two reports with the same
\* report id and generation timestamp.
C24_ReimportIsNoop ==
  [][/\ \A p \in SeqProcs :
          ( /\ ipc[p] = "check" /\ ipc'[p] \notin {"check", "killed"}
            /\ SameReport(ifile[p]) # {} )
          => /\ ipc'[p] = "returned"
             /\ iret'[p] \in SameReport(ifile[p])
             /\ ar' = ar
             /\ ak' = ak
     /\ \A r1 \in 1..Len(ar'), r2 \in 1..Len(ar') :
          ( /\ ar'[r1].report_id = ar'[r2].report_id
            /\ ar'[r1].generated_at = ar'[r2].generated_at ) => r1 = r2
    ]_vars

\* The first of two reports was imported again: its id was returned and
\* there are still two reports.
C24_Witness ==
  /\ ipc[1] = "returned" /\ iret[1] = 1 /\ Len(ar) = 2
  /\ ifile[1].report_id = ar[1].report_id
  /\ ifile[1].generated_at = ar[1].generated_at

\* C26 (as claimed): every Keyword row, whichever importer wrote it, has
\* total_score = score_rank + score_genre + score_overall, each component
\* the documented band of the stored rank or popularity.
C26_KeywordScores ==
  \A k \in 1..Len(ak) :
    /\ ak[k].total_score = ak[k].score_rank + ak[k].score_genre + ak[k].score_overall
    /\ ak[k].score_rank = BandRank(ak[k].rank_in_genre)
    /\ ak[k].score_genre = BandGenre(ak[k].popularity_genre)
    /\ ak[k].score_overall = BandOverall(ak[k].popularity_overall)

\* The file of the import has data rows, none with the country of the filter.
AllRowsExcluded(f) ==
  /\ f.defect = None
  /\ f.rows # <<>>
  /\ \A k \in 1..Len(f.rows) : f.rows[k].country # CountryFilter

\* C28: an import of a new report whose data rows are all excluded by the
\* country filter does not raise on its own account, and when it commits a
\* Report row with total_keywords = 0 is added as active, its id is
\* returned and no Keyword row is added.
C28_EmptyImportSucceeds ==
  [][\A p \in SeqProcs :
       AllRowsExcluded(ifile[p])
       => /\ ipc[p] \in {"check", "collect", "deactivate"} => ipc'[p] # "raised"
          /\ (ipc[p] = "commit" /\ ipc'[p] = "returned")
             => /\ Len(ar') = Len(ar) + 1
                /\ iret'[p] = Len(ar')
                /\ ar'[Len(ar')].total_keywords = 0
                /\ ar'[Len(ar')].is_active
                /\ ar'[Len(ar')].report_id = ifile[p].report_id
                /\ ak' = ak
    ]_vars

\* An import of a sheet with one row, of another country, has returned the
\* new active report, which has no keywords.
C28_Witness ==
  /\ ipc[1] = "returned" /\ AllRowsExcluded(ifile[1])
  /\ iret[1] = Len(ar) /\ ar[Len(ar)].total_keywords = 0 /\ ar[Len(ar)].is_active
  /\ ar[Len(ar)].report_id = ifile[1].report_id
  /\ \A k \in 1..Len(ak) : ak[k].report_id # Len(ar)

\* C31 (as claimed): the metadata of load_batch_results have the formatted
\* duration and the throughput whenever the Batch has a start and a
\* completion timestamp.
C31_TimingFields ==
  ( /\ fout.fn = "report"
    /\ fin.keyword_batches[BatchId].started_at # NULL
    /\ fin.keyword_batches[BatchId].completed_at # NULL )
  => /\ "duration_formatted" \in DOMAIN fout.metadata
     /\ "processing_rate" \in DOMAIN fout.metadata

\* The items of the queue of the invocation that are failed.
FailedOf(p) == {k \in 1..Len(keywords[p]) : items[keywords[p][k]].status = "failed"}

\* C32: the process command exits with 0 exactly when process_batch
\* returned and no item of the invocation failed (an empty queue included)
\* and with a nonzero code when an item failed or process_batch raised; for
\* an unknown batch id it raises without a write to either table.
C32_ExitCode ==
  [][\A p \in SeqProcs :
       /\ (pc'[p] = "returned" /\ pc[p] # "returned")
            => (main(p)' = 0 <=> FailedOf(p)' = {})
       /\ (pc'[p] = "raised" /\ pc[p] # "raised")
            => /\ main(p)' # 0
               /\ ~BatchExists
               /\ keyword_batches' = keyword_batches
               /\ items' = items
       /\ (pc[p] = "load" /\ ~BatchExists /\ pc'[p] # "load")
            => pc'[p] \in {"raised", "killed"}
    ]_vars

\* An invocation has returned with one item completed and one failed, and
\* the command exits with 1.
C32_Witness ==
  /\ pc[1] = "returned" /\ ret[1] = <<1, 1>> /\ main(1) = 1
  /\ Cardinality(FailedOf(1)) = 1

\* The records for the search term of item i newer than a time that were
\* written by another run than the one started for item i.
ForeignRecordsFor(i, after) ==
  {k \in NewerRecordsFor(items[i].search_term, after) : searches[k].by # i}

\* C33: the lookup does not tell the record of the item's own tool run
\* from a record another process wrote for the same keyword: when a foreign
\* record newer than the before-timestamp is newer than every record of the
\* item's own run, the lookup returns a foreign record, and after a zero
\* exit that record becomes the item's result link.
C33_ForeignRecordLinked ==
  [][\A p \in SeqProcs :
       /\ ( /\ pc[p] = "wait" /\ pc'[p] = "record"
            /\ result'[p].outcome = "exit0"
            /\ \E f \in ForeignRecordsFor(keywords[p][idx[p]], before[p]) :
                 \A k \in NewerRecordsFor(items[keywords[p][idx[p]]].search_term, before[p]) :
                   searches[k].by = keywords[p][idx[p]]
                     => searches[k].timestamp < searches[f].timestamp )
          => \E f \in ForeignRecordsFor(keywords[p][idx[p]], before[p]) :
               result'[p].search_id = searches[f].id
       /\ ( /\ pc[p] = "record" /\ pc'[p] = "counters"
            /\ result[p].search_id # None )
          => items'[keywords[p][idx[p]]].analysis_search_id = result[p].search_id
    ]_vars

\* An item is completed and linked to a record another process wrote, while
\* the record of its own tool run is in the table as well.
C33_Witness ==
  \E i \in 1..Len(items), f \in 1..Len(searches), k \in 1..Len(searches) :
    /\ items[i].status = "completed"
    /\ items[i].analysis_search_id = searches[f].id
    /\ searches[f].by = 0
    /\ searches[f].keyword = items[i].search_term
    /\ searches[k].by = i

\* C34 (as claimed): once the Batch has a started_at, no step changes it.
C34_StartedAtKept ==
  [][(BatchExists /\ batch.started_at # NULL)
       => keyword_batches'[BatchId].started_at = batch.started_at]_vars

\* A row of batch_keywords without the columns the processor writes.
ItemFrame(row) ==
  [row EXCEPT !.status = None, !.analysis_search_id = None,
              !.error_message = None, !.processed_at = NULL]

\* A row of keyword_batches without the columns the processor writes.
BatchFrame(b) ==
  [b EXCEPT !.status = None, !.started_at = NULL, !.completed_at = NULL,
            !.duration_seconds = NULL, !.completed_keywords = 0, !.failed_keywords = 0]

\* C35: a step of an invocation on the batch inserts and deletes no row,
\* changes no row of another batch, and in the rows of its batch changes
\* only status, timestamps, duration and counters of the Batch and status,
\* result link, error message and processed timestamp of the items.
C35_ProcessorFrame ==
  [][(pc' # pc)
       => /\ Len(keyword_batches') = Len(keyword_batches)
          /\ Len(items') = Len(items)
          /\ \A b \in 1..Len(keyword_batches) :
               /\ BatchFrame(keyword_batches'[b]) = BatchFrame(keyword_batches[b])
               /\ b # BatchId => keyword_batches'[b] = keyword_batches[b]
          /\ \A i \in 1..Len(items) :
               /\ ItemFrame(items'[i]) = ItemFrame(items[i])
               /\ items[i].batch_id # BatchId => items'[i] = items[i]
    ]_vars

\* The invocation on the batch has finished it while the second batch and
\* its item are still pending and untouched.
C35_Witness ==
  /\ pc[1] = "returned" /\ batch.status \in Terminal
  /\ Len(keyword_batches) = 2 /\ keyword_batches[OtherBatchId].status = "pending"
  /\ keyword_batches[OtherBatchId].started_at = NULL
  /\ \E i \in 1..Len(items) :
       /\ items[i].batch_id = OtherBatchId /\ items[i].status = "pending"
       /\ items[i].processed_at = NULL
  /\ \E i \in 1..Len(items) :
       /\ items[i].batch_id = BatchId /\ items[i].status = "completed"

\* C36 (as claimed): the report whose id import_report has returned is
\* active.
C36_Original ==
  \A p \in SeqProcs : ipc[p] = "returned" => ar[iret[p]].is_active

\* C36 (amended): when import_report returns the id of the report it has
\* inserted, that report is the one active report of its month_locale_key;
\* when it returns the id of an already imported report, that report has
\* the is_active flag it had before the call, which is 0 once a later import
\* for the key has deactivated it.
C36_ReturnedReport ==
  [][\A p \in SeqProcs :
       /\ (ipc[p] = "commit" /\ ipc'[p] = "returned")
            => /\ iret'[p] = Len(ar')
               /\ {r \in 1..Len(ar') : /\ ar'[r].is_active
                                       /\ ar'[r].month_locale_key = ifile[p].month_locale_key}
                    = {iret'[p]}
       /\ (ipc[p] = "check" /\ ipc'[p] = "returned")
            => /\ iret'[p] \in SameReport(ifile[p])
               /\ ar'[iret'[p]].is_active = ar[iret'[p]].is_active
    ]_vars

\* The first report of a key, deactivated by the import of the second, was
\* imported again: its id was returned and it is still inactive.
C36_Witness ==
  /\ ipc[1] = "returned" /\ iret[1] = 1 /\ Len(ar) = 2
  /\ 1 \in SameReport(ifile[1])
  /\ ~ar[1].is_active /\ ar[2].is_active
  /\ ar[1].month_locale_key = ar[2].month_locale_key

\* The entries of a list of the analyzer whose input is a keyword object.
EntriesOf(list, kw) == {e \in 1..Len(list) : list[e].input = kw}

\* C37 (as claimed): when process_keywords returns, fresh or resumed, every
\* keyword object of the input has as many entries in results and failed
\* together as it has places in the input, successful + failed is the number
\* of input keywords, and no keyword whose term was in the checkpoint has
\* been analyzed in this run.
C37_EachKeywordOnce ==
  kz.pc = "returned"
    => /\ \A k \in 1..Len(kz.keywords) :
            Cardinality(EntriesOf(kz.results, kz.keywords[k]))
              + Cardinality(EntriesOf(kz.failed, kz.keywords[k]))
            = Cardinality({j \in 1..Len(kz.keywords) : kz.keywords[j] = kz.keywords[k]})
       /\ kz.successful + kz.nfailed = Len(kz.keywords)
       /\ \A k \in kz.analyzed : kz.keywords[k].search_term \notin kz.processed_terms

\* The names in schema_migrations.
Recorded == {mg.schema_migrations[r] : r \in 1..Len(mg.schema_migrations)}

\* The names apply_migration was called with in the current run.
Tried == {mg.tried[t] : t \in 1..Len(mg.tried)}

\* The files that were in the directory and not recorded when the current
\* run listed them.
PendingAtStart == mg.start_files \ mg.start_applied

\* C38 (as claimed): as C38_MigrationOrder, and a run that was not the first
\* and found no file added since the previous run records no migration.
C38_Original ==
  [][Len(mg'.schema_migrations) > Len(mg.schema_migrations)
       => (mg.runs = 1 \/ mg.new_files)]_vars

\* C38 (amended): run_migrations calls apply_migration on the files that
\* were pending when it listed them, in ascending order of their names and
\* skipping none, never on a file whose name is recorded in
\* schema_migrations, and on no file after one has failed in the run; it
\* returns the number it recorded.  A run that finds no new file applies
\* nothing unless a migration failed in the previous run, in which case it
\* starts again with the pending files.
C38_MigrationOrder ==
  [][/\ mg'.tried # mg.tried /\ mg'.tried # <<>>
        => LET n == mg'.tried[Len(mg'.tried)]
           IN /\ mg.pc = "loop"
              /\ n \in PendingAtStart
              /\ n \notin Recorded
              /\ n \notin Tried
              /\ \A f \in PendingAtStart : f < n => f \in Tried
              /\ ~mg.stopped
              /\ (mg.runs = 1 \/ mg.new_files \/ mg.prev_stopped)
     /\ mg'.pc = "returned"
        => /\ mg'.applied_count = Len(mg'.schema_migrations) - Cardinality(mg'.start_applied)
           /\ \A r1 \in 1..Len(mg'.schema_migrations), r2 \in 1..Len(mg'.schema_migrations) :
                mg'.schema_migrations[r1] = mg'.schema_migrations[r2] => r1 = r2
    ]_vars

\* The first run stopped at a migration that failed; the second run, with
\* no file added, has applied what was left and returned.
C38_Witness ==
  /\ mg.pc = "returned" /\ mg.runs = 2 /\ ~mg.new_files /\ mg.prev_stopped
  /\ mg.applied_count >= 1 /\ ~mg.stopped
  /\ Cardinality(mg.files) >= 2 /\ Recorded = mg.files

\* C39 (as claimed): a migration is recorded in schema_migrations exactly
\* when all statements of its script have taken effect, and the database
\* has no effect of a statement of a migration that is not recorded.
C39_MigrationAtomic ==
  \A n \in MigrationNames :
    /\ n \in Recorded <=> \A j \in 1..MaxScript : <<n, j>> \in mg.effects
    /\ n \notin Recorded => \A j \in 1..MaxScript : <<n, j>> \notin mg.effects

\* C40 (as claimed): a binary the launcher has downloaded in this start is
\* extracted and executed only after the archive's digest was compared with
\* the published checksum and found equal, and after a mismatch the archive
\* is deleted and nothing of it is extracted or executed.
C40_ChecksumBeforeExec ==
  /\ (dl.downloaded /\ dl.pc \in {"extracted", "exec"}) => dl.compared
  /\ dl.mismatch => /\ dl.pc = "exit"
                    /\ dl.tar[dl.version] = 0
                    /\ dl.binary[dl.version] = 0
                    /\ dl.executed = 0
====
